---- MODULE Spec2Model ----
(***************************************************************************)
(* A model of the OpenIPMI "normal FRU" codec (lib/normal_fru.c): the      *)
(* decoder of a FRU image, the in-memory area records with their dirty     *)
(* flags, the setters, the layout operations and the write planner.        *)
(*                                                                         *)
(* Buffers are sequences of bytes; the byte at C offset o is buf[o+1].     *)
(* An unsigned int is held as its two's-complement representative, so a    *)
(* value that wrapped below zero is a negative number here and ULt/UGt     *)
(* compare as the C code's unsigned comparisons do.                        *)
(***************************************************************************)
EXTENDS Integers, Sequences, FiniteSets, TLC

(* ---------------------------------------------------------------- bounds *)

\* Length of the FRU image handed to the decoder (_ipmi_fru_get_data_len).
DataLen == 48

\* Number of edit calls made on one FRU in one behaviour.
MaxOps == 2

\* Number of navigation nodes alive at a time.
MaxNodes == 2
S1Len == 64

\* The largest length byte (area length / 8) of the long-area images.
MaxLengthByte == 34

(* ------------------------------------------------------------- constants *)

IPMI_LANG_CODE_ENGLISH == 25

\* fru_area_info[] indexes: the five area kinds, in header order.
INTERNAL_USE_AREA == 0
CHASSIS_INFO_AREA == 1
BOARD_INFO_AREA == 2
PRODUCT_INFO_AREA == 3
MULTI_RECORD_AREA == 4

Areas == 0..4

\* fru_area_info[]: num_fixed_fields, field_start, empty_length, get_fields.
num_fixed_fields(area) ==
    CASE area = 1 -> 2 [] area = 2 -> 5 [] area = 3 -> 7 [] OTHER -> 0

field_start(area) ==
    CASE area = 1 -> 3 [] area = 2 -> 6 [] area = 3 -> 3 [] OTHER -> 0

empty_length(area) ==
    CASE area = 0 -> 1 [] area = 1 -> 7 [] area = 2 -> 13 [] area = 3 -> 12
      [] OTHER -> 0

has_get_fields(area) == area \in {1, 2, 3}

(* --------------------------------------------------------------- helpers *)

Min(a, b) == IF a < b THEN a ELSE b

\* C unsigned comparisons on two's-complement representatives.
ULt(a, b) == IF (a < 0) = (b < 0) THEN a < b ELSE b < 0
UGt(a, b) == ULt(b, a)

RECURSIVE SumBytes(_, _, _)
SumBytes(buf, from, n) ==
    IF n <= 0 THEN 0
    ELSE IF n = 1 THEN buf[from + 1]
    ELSE SumBytes(buf, from, n \div 2)
         + SumBytes(buf, from + (n \div 2), n - (n \div 2))

\* checksum(data, length): the byte sum of data[from .. from+length-1].
checksum(buf, from, length) == SumBytes(buf, from, length) % 256

\* -x as an unsigned char.
Neg8(x) == (256 - (x % 256)) % 256

Zeros(n) == [i \in 1..n |-> 0]

\* memcpy(buf + off, bytes, Len(bytes)).
Poke(buf, off, bytes) ==
    [i \in 1..Len(buf) |->
        IF i > off /\ i <= off + Len(bytes) THEN bytes[i - off] ELSE buf[i]]

\* memset(buf + off, 0, n).
Fill0(buf, off, n) ==
    [i \in 1..Len(buf) |-> IF i > off /\ i <= off + n THEN 0 ELSE buf[i]]

\* The bytes buf[off .. off+n-1].
Slice(buf, off, n) == SubSeq(buf, off + 1, off + n)

Take(s, n) == SubSeq(s, 1, Min(n, Len(s)))

(* ---------------------------------------------------- TLV string codec *)
(* ipmi_set_device_string and ipmi_get_device_string live in the library's *)
(* string module; they are modelled from the format description: a prefix  *)
(* byte type<<6 | length, 0xC0 for an empty string, 0xC1 reserved for the  *)
(* end marker, payloads cut to 63 bytes.                                   *)

StrTypes == {"ASCII", "BINARY", "UNICODE"}

\* The encoder: the raw bytes of one string of the given type.
ipmi_set_device_string(str, type, len) ==
    LET p == Take(str, Min(len, 63))
        n == Len(p)
    IN  IF n = 0 THEN <<192>>
        ELSE IF type = "BINARY" THEN <<n>> \o p
        ELSE IF type = "ASCII" /\ n = 1 THEN <<194, p[1], 0>>
        ELSE <<192 + n>> \o p

BcdPlusChar(v) ==
    CASE v < 10 -> 48 + v
      [] v = 10 -> 32 [] v = 11 -> 45 [] v = 12 -> 46
      [] v = 13 -> 58 [] v = 14 -> 44 [] OTHER -> 95

\* BCD plus: two characters a byte, high nibble first.
BcdPlusDecode(p) ==
    [i \in 1..(2 * Len(p)) |->
        LET b == p[(i + 1) \div 2]
        IN  BcdPlusChar(IF i % 2 = 1 THEN b \div 16 ELSE b % 16)]

Pow2(s) == CASE s = 0 -> 1 [] s = 2 -> 4 [] s = 4 -> 16 [] OTHER -> 64

\* 6-bit ASCII: four characters in three bytes, least significant bits first.
SixBitDecode(p) ==
    [i \in 1..((Len(p) * 8) \div 6) |->
        LET bit == 6 * (i - 1)
            j   == bit \div 8
            lo  == p[j + 1]
            hi  == IF j + 2 <= Len(p) THEN p[j + 2] ELSE 0
        IN  32 + (((lo + 256 * hi) \div Pow2(bit % 8)) % 64)]

\* The decoder: reads one string at buf[pos], with in_len bytes left.
ipmi_get_device_string(buf, pos, in_len, force_unicode) ==
    IF in_len <= 0 \/ pos >= Len(buf)
    THEN [ok |-> FALSE, type |-> "ASCII", str |-> <<>>, consumed |-> 0]
    ELSE
    LET t   == buf[pos + 1] \div 64
        len == buf[pos + 1] % 64
    IN  IF 1 + len > in_len \/ pos + 1 + len > Len(buf)
        THEN [ok |-> FALSE, type |-> "ASCII", str |-> <<>>, consumed |-> 0]
        ELSE
        LET p == Slice(buf, pos + 1, len)
        IN  [ok |-> TRUE,
             type |-> CASE t = 0 -> "BINARY"
                        [] t = 3 /\ force_unicode -> "UNICODE"
                        [] OTHER -> "ASCII",
             str |-> CASE t = 1 -> BcdPlusDecode(p)
                       [] t = 2 -> SixBitDecode(p)
                       [] OTHER -> p,
             consumed |-> 1 + len]

(* ------------------------------------------------------------- records *)

\* A zeroed fru_string_t (memset 0): type 0 is IPMI_ASCII_STR.
ZeroStr ==
    [type |-> "ASCII", length |-> 0, str |-> <<>>, has_str |-> FALSE,
     offset |-> 0, raw_len |-> 0, raw_data |-> <<>>, has_raw |-> FALSE,
     changed |-> FALSE]

\* A zeroed ipmi_fru_record_elem_t.
ZeroElem ==
    [offset |-> 0, changed |-> FALSE, type |-> 0, format_version |-> 0,
     length |-> 0, data |-> <<>>, has_data |-> FALSE]

\* An ipmi_fru_record_t with the data of its area kind behind it, as
\* fru_record_alloc leaves it before setup_new: all zero.  `strings` holds
\* the whole allocated array (fields.len entries) of which the first `next`
\* are in use; `records` the whole rec_len array of which the first
\* num_records are in use.
ZeroRec ==
    [present |-> FALSE,
     offset |-> 0, length |-> 0, used_length |-> 0, orig_used_length |-> 0,
     changed |-> FALSE, rewrite |-> FALSE,
     version |-> 0, type |-> 0, lang_code |-> 0, mfg_time |-> 0,
     next |-> 0, strings |-> <<>>,
     ilength |-> 0, idata |-> <<>>, has_idata |-> FALSE,
     num_records |-> 0, records |-> <<>>]

\* recs[area] == NULL.
NoRec == ZeroRec

\* fru_record_alloc(area): a zeroed record; every setup_new routine sets
\* the first byte of the area data, which is `version` in each area type.
fru_record_alloc(area) ==
    [ZeroRec EXCEPT !.present = TRUE,
                    !.version = IF area = MULTI_RECORD_AREA THEN 0 ELSE 1]

(* -------------------------------------------------------------- decode *)

\* fru_setup_min_field: the fixed strings of a new area, one byte each.
fru_setup_min_field(rec, area, changed) ==
    IF ~has_get_fields(area) \/ num_fixed_fields(area) = 0 THEN rec
    ELSE [rec EXCEPT
            !.strings = [i \in 1..num_fixed_fields(area) |->
                            [ZeroStr EXCEPT !.changed = changed,
                                            !.offset = field_start(area) + i - 1,
                                            !.raw_len = 1]],
            !.next = num_fixed_fields(area)]

\* The force_english argument HANDLE_STR_DECODE passes for fixed field idx.
force_english(area, idx) ==
    CASE area = CHASSIS_INFO_AREA -> TRUE
      [] area = BOARD_INFO_AREA -> idx >= 2
      [] area = PRODUCT_INFO_AREA -> idx \in {4, 6}
      [] OTHER -> FALSE

\* fru_decode_string: fills strings[num] from the bytes at pos.  A decoder
\* state is [err, strings, next, pos, data_len].
fru_decode_string(buf, start_pos, st, lang_code, fe, num) ==
    LET force_unicode == ~fe /\ lang_code # IPMI_LANG_CODE_ENGLISH
        Fill(r) ==
            IF ~r.ok THEN [st EXCEPT !.err = "EBADF"]
            ELSE [st EXCEPT
                    !.strings[num + 1] =
                        [@ EXCEPT !.offset = st.pos - start_pos,
                                  !.length = Len(r.str),
                                  !.type = r.type,
                                  !.raw_len = r.consumed,
                                  !.raw_data = Slice(buf, st.pos, r.consumed),
                                  !.has_raw = TRUE,
                                  !.str = r.str,
                                  !.has_str = TRUE],
                    !.pos = st.pos + r.consumed,
                    !.data_len = st.data_len - r.consumed]
    IN  Fill(ipmi_get_device_string(buf, st.pos, st.data_len, force_unicode))

\* The HANDLE_STR_DECODE lines of one area, in order.
RECURSIVE DecodeFixed(_, _, _, _, _, _)
DecodeFixed(buf, start_pos, st, lang_code, area, idx) ==
    IF idx >= num_fixed_fields(area) \/ st.err # "OK" THEN st
    ELSE DecodeFixed(buf, start_pos,
                     fru_decode_string(buf, start_pos, st, lang_code,
                                       force_english(area, idx), idx),
                     lang_code, area, idx + 1)

\* fru_decode_variable_string: grows the array by FRU_STR_ALLOC_INCREMENT
\* when it is full, then decodes the next custom string.
fru_decode_variable_string(buf, start_pos, st, lang_code) ==
    LET Counted(d) == IF d.err # "OK" THEN d ELSE [d EXCEPT !.next = @ + 1]
        Into(grown) ==
            Counted(fru_decode_string(buf, start_pos, grown, lang_code, FALSE,
                                      grown.next))
    IN  Into(IF st.next = Len(st.strings)
             THEN [st EXCEPT !.strings = @ \o [i \in 1..5 |-> ZeroStr]]
             ELSE st)

\* HANDLE_CUSTOM_DECODE: custom strings up to the end marker 0xc1.
RECURSIVE DecodeCustom(_, _, _, _)
DecodeCustom(buf, start_pos, st, lang_code) ==
    IF st.err # "OK" \/ ~(st.data_len > 0) \/ buf[st.pos + 1] = 193 THEN st
    ELSE DecodeCustom(buf, start_pos,
                      fru_decode_variable_string(buf, start_pos, st, lang_code),
                      lang_code)

\* FRU_TIME_TO_UNIX_TIME and UNIX_TIME_TO_FRU_TIME.  The division is C's,
\* which truncates toward zero.
FRU_TIME_TO_UNIX_TIME(t) == (t * 60) + 820476000
UNIX_TIME_TO_FRU_TIME(t) ==
    LET n == (t - 820476000) + 30
    IN  IF n >= 0 THEN n \div 60 ELSE 0 - ((0 - n) \div 60)

\* read_fru_time: three little-endian bytes at pos.
read_fru_time(buf, pos) ==
    FRU_TIME_TO_UNIX_TIME(buf[pos + 1] + buf[pos + 2] * 256
                          + buf[pos + 3] * 256 * 256)

\* An encoder that stores the minute count most significant byte first.
write_fru_time_bigendian(time) ==
    LET t == UNIX_TIME_TO_FRU_TIME(time)
    IN  <<(t \div 65536) % 256, (t \div 256) % 256, t % 256>>

\* write_fru_time: the low three bytes of the minute count, whatever its
\* size or sign (the count is held in an unsigned int and shifted out).
write_fru_time(time) ==
    LET t == UNIX_TIME_TO_FRU_TIME(time)
    IN  <<t % 256, (t \div 256) % 256, (t \div 65536) % 256>>

DecodeErr(e) == [err |-> e, rec |-> NoRec]

\* fru_decode_internal_use_area.
fru_decode_internal_use_area(buf, offset, data_len) ==
    [err |-> "OK",
     rec |-> [fru_record_alloc(INTERNAL_USE_AREA) EXCEPT
                !.length = data_len,
                !.used_length = data_len,
                !.orig_used_length = data_len,
                !.version = buf[offset + 1],
                !.ilength = data_len - 1,
                !.idata = Slice(buf, offset + 1, data_len - 1),
                !.has_idata = TRUE]]

\* The area length a decoder reads from header byte 1: chassis and board
\* hold it in an unsigned char, product in an unsigned int.
decoded_area_length(area, b) ==
    IF area = PRODUCT_INFO_AREA THEN b * 8 ELSE (b * 8) % 256

\* fru_decode_chassis_info_area, fru_decode_board_info_area and
\* fru_decode_product_info_area: they differ in the header bytes only.
\* When data_len < 2 the length byte lies past the end of the image; the
\* length it yields is a multiple of 8, hence 0 or greater than data_len
\* whatever is read there, so every outcome of that read is EBADF.
fru_decode_info_area(area, buf, offset, data_len) ==
    LET length == IF data_len < 2 THEN 0
                  ELSE decoded_area_length(area, buf[offset + 2])
    IN
    IF length = 0 \/ length > data_len THEN DecodeErr("EBADF")
    ELSE IF checksum(buf, offset, length) # 0 THEN DecodeErr("EBADF")
    ELSE
    LET lang == IF area = CHASSIS_INFO_AREA THEN IPMI_LANG_CODE_ENGLISH
                ELSE IF buf[offset + 3] = 0 THEN IPMI_LANG_CODE_ENGLISH
                ELSE buf[offset + 3]
        hdr  == field_start(area)
        Result(rec0, st) ==
            IF st.err # "OK" THEN DecodeErr(st.err)
            ELSE [err |-> "OK",
                  rec |-> [rec0 EXCEPT
                             !.length = length,
                             !.version = buf[offset + 1],
                             !.type = IF area = CHASSIS_INFO_AREA
                                      THEN buf[offset + 3] ELSE 0,
                             !.lang_code = lang,
                             !.mfg_time = IF area = BOARD_INFO_AREA
                                          THEN read_fru_time(buf, offset + 3)
                                          ELSE 0,
                             !.strings = st.strings,
                             !.next = st.next,
                             !.used_length = st.pos - offset + 2,
                             !.orig_used_length = st.pos - offset + 2]]
        Parse(rec0) ==
            Result(rec0,
                   DecodeCustom(buf, offset,
                       DecodeFixed(buf, offset,
                           [err |-> "OK", strings |-> rec0.strings,
                            next |-> rec0.next, pos |-> offset + hdr,
                            data_len |-> data_len - 1 - hdr],
                           lang, area, 0),
                       lang))
    IN  Parse(fru_setup_min_field(fru_record_alloc(area), area, FALSE))

\* The first scan of fru_decode_multi_record_area: checks every record and
\* returns the number of records and the bytes they take, or an error.
RECURSIVE ScanMultiRecords(_, _, _, _)
ScanMultiRecords(buf, pos, left, n) ==
    IF left < 5 THEN [err |-> "EBADF", n |-> n, pos |-> pos]
    ELSE IF checksum(buf, pos, 5) # 0 THEN [err |-> "EBADF", n |-> n, pos |-> pos]
    ELSE
    LET length == buf[pos + 3]
    IN  IF length + 5 > left THEN [err |-> "EBADF", n |-> n, pos |-> pos]
        ELSE IF (checksum(buf, pos + 5, length) + buf[pos + 4]) % 256 # 0
        THEN [err |-> "EBADF", n |-> n, pos |-> pos]
        ELSE IF (buf[pos + 2] \div 128) % 2 = 1
        THEN [err |-> "OK", n |-> n + 1, pos |-> pos + length + 5]
        ELSE ScanMultiRecords(buf, pos + length + 5, left - (length + 5), n + 1)

\* The second pass: the records of the area, with their offsets.
RECURSIVE ReadMultiRecords(_, _, _, _)
ReadMultiRecords(buf, base, start_offset, n) ==
    IF n = 0 THEN <<>>
    ELSE
    LET pos == base + start_offset
        length == buf[pos + 3]
    IN  <<[ZeroElem EXCEPT !.data = Slice(buf, pos + 5, length),
                           !.has_data = TRUE,
                           !.length = length,
                           !.type = buf[pos + 1],
                           !.format_version = buf[pos + 2] % 16,
                           !.offset = start_offset]>>
        \o ReadMultiRecords(buf, base, start_offset + length + 5, n - 1)

\* fru_decode_multi_record_area.
fru_decode_multi_record_area(buf, offset, data_len) ==
    LET Result(sc) ==
            IF sc.err # "OK" THEN DecodeErr(sc.err)
            ELSE [err |-> "OK",
                  rec |-> [fru_record_alloc(MULTI_RECORD_AREA) EXCEPT
                             !.length = data_len,
                             !.used_length = sc.pos - offset,
                             !.orig_used_length = sc.pos - offset,
                             !.num_records = sc.n,
                             !.records = ReadMultiRecords(buf, offset, 0, sc.n)]]
    IN  Result(ScanMultiRecords(buf, offset, data_len, 0))

\* fru_area_info[area].decode.
area_decode(area, buf, offset, data_len) ==
    CASE area = INTERNAL_USE_AREA ->
            fru_decode_internal_use_area(buf, offset, data_len)
      [] area = MULTI_RECORD_AREA ->
            fru_decode_multi_record_area(buf, offset, data_len)
      [] OTHER -> fru_decode_info_area(area, buf, offset, data_len)

\* A decoder that takes the areas in whatever order the header gives.
OffsetsInOrder_any(foff, i, j) == TRUE

\* The ordering check of process_fru_info: nonzero offsets strictly increase.
RECURSIVE OffsetsInOrder(_, _, _)
OffsetsInOrder(foff, i, j) ==
    IF j >= 5 THEN TRUE
    ELSE IF foff[i] = 0 THEN OffsetsInOrder(foff, j, j + 1)
    ELSE LET later == {k \in j..4 : foff[k] # 0}
         IN  IF later = {} THEN TRUE
             ELSE LET j2 == CHOOSE k \in later : \A m \in later : k <= m
                  IN  IF foff[i] >= foff[j2] THEN FALSE
                      ELSE OffsetsInOrder(foff, j2, j2 + 1)

\* The area loop of process_fru_info from area i on; stops at the first
\* decoder error.
RECURSIVE DecodeAreas(_, _, _, _)
DecodeAreas(buf, foff, i, acc) ==
    IF i >= 5 THEN [err |-> "OK", recs |-> acc]
    ELSE IF foff[i] = 0 THEN DecodeAreas(buf, foff, i + 1, acc)
    ELSE
    LET later == {k \in (i + 1)..4 : foff[k] # 0}
        next_off == IF later = {} THEN Len(buf)
                    ELSE foff[CHOOSE k \in later : \A m \in later : k <= m]
        Put(d) ==
            IF d.err # "OK" THEN [err |-> d.err, recs |-> acc]
            ELSE DecodeAreas(buf, foff, i + 1,
                             [acc EXCEPT ![i] = [d.rec EXCEPT !.offset = foff[i]]])
    IN  Put(area_decode(i, buf, foff[i], next_off - foff[i]))

\* A decoder that takes the area offsets from header bytes 0..4.
HeaderOffset_early(buf, i) == buf[i + 1] * 8

\* foff[i].offset = data[i+1] * 8: header bytes 1..5 are the offsets of
\* areas 0..4, in multiples of 8.
HeaderOffset(buf, i) == buf[i + 2] * 8

\* process_fru_info: [err, recs, installed]; `installed` says that the
\* record data was set up and the normal-FRU handlers and flag installed.
\* `mask` is the set of areas in the fetch mask, `oom` says that the
\* allocation of the record data fails.
process_fru_info(buf, mask, oom) ==
    LET foff == [i \in Areas |-> IF i \in mask THEN HeaderOffset(buf, i) ELSE 0]
        none == [i \in Areas |-> NoRec]
    IN  IF checksum(buf, 0, 8) # 0
        THEN [err |-> "EBADF", recs |-> none, installed |-> FALSE]
        ELSE IF buf[1] # 1
        THEN [err |-> "EBADF", recs |-> none, installed |-> FALSE]
        ELSE IF \E i \in Areas : foff[i] >= Len(buf)
        THEN [err |-> "EBADF", recs |-> none, installed |-> FALSE]
        ELSE IF ~OffsetsInOrder(foff, 0, 1)
        THEN [err |-> "EBADF", recs |-> none, installed |-> FALSE]
        ELSE IF oom
        THEN [err |-> "ENOMEM", recs |-> none, installed |-> FALSE]
        ELSE LET Result(d) ==
                    IF d.err # "OK"
                    THEN [err |-> d.err, recs |-> none, installed |-> TRUE]
                    ELSE [err |-> "OK", recs |-> d.recs, installed |-> TRUE]
             IN  Result(DecodeAreas(buf, foff, 0, none))

(* ------------------------------------------------------- input images *)

PadTo(bytes, n) == IF Len(bytes) >= n THEN bytes ELSE bytes \o Zeros(n - Len(bytes))

\* The common header for the five area offsets.
HeaderBytes(o0, o1, o2, o3, o4) ==
    LET h == <<1, o0 \div 8, o1 \div 8, o2 \div 8, o3 \div 8, o4 \div 8, 0>>
    IN  h \o <<Neg8(checksum(h, 0, 7))>>

\* An info area of `length` bytes: the body, zero fill, the checksum.
WithChecksum(body, length) ==
    LET b == PadTo(body, length - 1)
    IN  b \o <<Neg8(checksum(b, 0, length - 1))>>

\* One multi-record: type, version and end-of-list byte, payload.
MultiRecordBytes(type, ver, payload) ==
    LET pck == Neg8(checksum(payload, 0, Len(payload)))
        h == <<type, ver, Len(payload), pck>>
    IN  h \o <<Neg8(checksum(h, 0, 4))>> \o payload

\* Chassis "AB"/"" with one custom string "C", board with two fixed strings
\* set, one multi-record.
ImageFull ==
    HeaderBytes(0, 8, 24, 0, 40)
    \o WithChecksum(<<1, 2, 23, 194, 65, 66, 192, 194, 67, 0, 193>>, 16)
    \o WithChecksum(<<1, 2, 25, 1, 0, 0, 192, 192, 192, 192, 192, 193>>, 16)
    \o MultiRecordBytes(2, 130, <<7, 9>>)

ImageFullFixed ==
    HeaderBytes(0, 8, 24, 0, 40)
    \o WithChecksum(<<1, 2, 23, 195, 65, 66, 67, 192, 193>>, 16)
    \o WithChecksum(<<1, 2, 25, 1, 0, 0, 1, 77, 192, 192, 192, 192, 193>>, 16)
    \o MultiRecordBytes(2, 130, <<7, 9>>)

\* Internal use and product areas, free space behind them.
ImageInternalProduct ==
    HeaderBytes(8, 0, 0, 16, 0)
    \o <<1, 5, 6, 7, 0, 0, 0, 0>>
    \o WithChecksum(<<1, 2, 25, 192, 192, 192, 192, 192, 192, 192, 193>>, 16)

\* No area at all.
ImageEmpty == HeaderBytes(0, 0, 0, 0, 0)

\* Two multi-records only.
ImageMultiRecords ==
    HeaderBytes(0, 0, 0, 0, 8)
    \o MultiRecordBytes(1, 2, <<3>>) \o MultiRecordBytes(192, 130, <<1, 2, 3, 4>>)

\* Images that decode but do not have the canonical form: language code 0,
\* multi-record version nibble 0, a byte behind the end marker.
ImageQuirks ==
    HeaderBytes(0, 8, 16, 0, 32)
    \o WithChecksum(<<1, 1, 23, 192, 192, 193, 5>>, 8)
    \o WithChecksum(<<1, 2, 0, 0, 0, 0, 192, 192, 192, 192, 192, 193>>, 16)
    \o MultiRecordBytes(2, 128, <<7>>)

\* A chassis area of declared length 8 whose strings run on behind it.
ImageOverrun ==
    HeaderBytes(0, 8, 0, 0, 0)
    \o <<1, 1, 181, 195, 65, 66, 67, 192>> \o <<193>>

\* A header whose checksum is wrong, and an area whose checksum is wrong.
ImageBadHeader == <<1, 1, 0, 0, 0, 0, 0, 0>> \o WithChecksum(<<1, 1, 0, 192, 192, 193>>, 8)
ImageBadArea == HeaderBytes(0, 8, 0, 0, 0) \o <<1, 1, 0, 192, 192, 193, 0, 0>>

InputImages ==
    {PadTo(b, DataLen) : b \in {ImageFull, ImageFullFixed, ImageInternalProduct,
                                ImageEmpty, ImageMultiRecords, ImageQuirks,
                                ImageOverrun, ImageBadHeader, ImageBadArea}}

(* ------------------------------------------------------ string setters *)

\* A setter that forgets to move the strings after the one it changed.
ShiftedOffset_unmoved(offset, raw_diff) == offset

\* vals->strings[i].offset += raw_diff, for the strings after a changed one.
ShiftedOffset(offset, raw_diff) == offset + raw_diff

\* A delete that takes one byte off the area whatever the string held.
DeletedStringDiff_one(val) == 0 - 1

\* raw_diff = -val->raw_len, for a custom string that is deleted.
DeletedStringDiff(val) == 0 - val.raw_len

\* fru_string_set: sets (str given), clears (fixed, no str) or deletes
\* (custom, no str) string `num` of rec.  `oom` says the allocation of the
\* new value fails.  Returns [rv, rec].
fru_string_set(type, has_str, str, len0, rec, num, is_custom, oom) ==
    LET val == rec.strings[num + 1]
        len == IF has_str THEN Min(len0, 63) ELSE 0
        raw == ipmi_set_device_string(str, type, len)
        diff0 == IF has_str THEN Len(raw) - val.raw_len ELSE 1 - val.raw_len
    IN
    IF has_str /\ diff0 > 0 /\ UGt(rec.used_length + diff0, rec.length)
    THEN [rv |-> "ENOSPC", rec |-> rec]
    ELSE IF has_str /\ oom THEN [rv |-> "ENOMEM", rec |-> rec]
    ELSE IF ~is_custom \/ has_str
    THEN [rv |-> "OK",
          rec |-> [rec EXCEPT
            !.strings = [i \in 1..Len(rec.strings) |->
                IF i = num + 1
                THEN [val EXCEPT !.str = IF has_str THEN Take(str, len) ELSE <<>>,
                                 !.has_str = has_str,
                                 !.raw_data = <<>>,
                                 !.has_raw = FALSE,
                                 !.length = len,
                                 !.type = type,
                                 !.raw_len = @ + diff0,
                                 !.changed = TRUE]
                ELSE IF diff0 # 0 /\ i > num + 1 /\ i <= rec.next
                THEN [rec.strings[i] EXCEPT !.offset = ShiftedOffset(@, diff0),
                                            !.changed = TRUE]
                ELSE rec.strings[i]],
            !.used_length = @ + diff0,
            !.changed = TRUE]]
    ELSE
    LET diff == DeletedStringDiff(val)
        next == rec.next - 1
    IN  [rv |-> "OK",
         rec |-> [rec EXCEPT
            !.next = next,
            !.strings = [i \in 1..Len(rec.strings) |->
                IF i >= num + 1 /\ i <= next
                THEN [rec.strings[i + 1] EXCEPT !.offset = ShiftedOffset(@, diff),
                                                !.changed = TRUE]
                ELSE IF i = num + 1
                THEN [val EXCEPT !.raw_data = <<>>, !.has_raw = FALSE]
                ELSE rec.strings[i]],
            !.used_length = @ + diff,
            !.changed = TRUE]]

\* A setter that takes a custom ordinal for the index into the array.
CustomIndex_raw(rec, first_custom, num0) == num0

\* The renumbering of a custom ordinal: past the end it becomes the end
\* (tested before the addition, so that a huge ordinal cannot wrap),
\* otherwise it counts from the first custom entry.
CustomIndex(rec, first_custom, num0) ==
    IF num0 > rec.next - first_custom THEN rec.next ELSE num0 + first_custom

\* fru_variable_string_set: resolves the index (a custom ordinal counts from
\* first_custom), appends a slot when the index is past the end, and calls
\* fru_string_set.  `oom` is 0 when no allocation fails, and otherwise the
\* number of the allocation of this call that fails.
fru_variable_string_set(rec, first_custom, num0, type, has_str, str, len, is_custom, oom) ==
    LET num1 == IF ~is_custom THEN num0
                ELSE CustomIndex(rec, first_custom, num0)
    IN
    IF num1 >= rec.next
    THEN IF len = 0 THEN [rv |-> "EINVAL", rec |-> rec]
         ELSE
         LET grow == rec.next >= Len(rec.strings)
         IN  IF grow /\ oom = 1 THEN [rv |-> "ENOMEM", rec |-> rec]
             ELSE
             LET arr == IF grow THEN rec.strings \o [i \in 1..16 |-> ZeroStr]
                        ELSE rec.strings
                 slot == [arr[rec.next + 1] EXCEPT
                            !.str = <<>>, !.has_str = FALSE,
                            !.raw_data = <<>>, !.has_raw = FALSE,
                            !.offset = rec.used_length - 2,
                            !.length = 0,
                            !.raw_len = 0]
                 rec1 == [rec EXCEPT !.strings = [arr EXCEPT ![rec.next + 1] = slot],
                                     !.next = @ + 1]
             IN  fru_string_set(type, has_str, str, len, rec1, rec.next,
                                is_custom,
                                IF grow THEN oom = 2 ELSE oom = 1)
    ELSE fru_string_set(type, has_str, str, len, rec, num1, is_custom, oom = 1)

(* ------------------------------------------- multi-record, internal use *)

\* An append that puts the new record at the front of the area.
AppendedOffset_front(rec) == 0

\* u->records[num].offset = rec->used_length for an appended record.
AppendedOffset(rec) == rec.used_length

\* A delete that forgets the five header bytes of the record.
DeletedRecordDiff_payload(elem) == 0 - elem.length

\* raw_diff = - (5 + u->records[num].length) for a deleted record.
DeletedRecordDiff(elem) == 0 - (5 + elem.length)

\* The body of ipmi_fru_set_multi_record once the area record is found.
\* Returns [rv, rec, header_changed, unlocked]: `unlocked` says whether the
\* return path taken calls _ipmi_fru_unlock.
set_multi_record(rec, hc, num0, type, version, has_data, dat, length, oom) ==
    LET append == num0 >= rec.num_records
        grow   == append /\ rec.num_records >= Len(rec.records)
    IN
    IF append /\ ~has_data
    THEN [rv |-> "EINVAL", rec |-> rec, header_changed |-> hc, unlocked |-> TRUE]
    ELSE IF grow /\ oom = 1
    THEN [rv |-> "ENOMEM", rec |-> rec, header_changed |-> hc, unlocked |-> TRUE]
    ELSE
    LET num  == IF append THEN rec.num_records ELSE num0
        arr  == IF grow THEN rec.records \o [i \in 1..16 |-> ZeroElem]
                ELSE rec.records
        rec1 == IF append
                THEN [rec EXCEPT
                        !.num_records = @ + 1,
                        !.records = [arr EXCEPT ![num + 1] =
                                        [@ EXCEPT !.offset = AppendedOffset(rec),
                                                  !.length = 0,
                                                  !.changed = TRUE,
                                                  !.data = <<>>,
                                                  !.has_data = FALSE]]]
                ELSE rec
        hc1  == IF append /\ rec.num_records = 0 THEN TRUE ELSE hc
        old  == rec1.records[num + 1]
    IN
    IF has_data
    THEN
        LET raw_diff == (IF append THEN 5 ELSE 0) + length - old.length
        IN  IF UGt(rec1.used_length + raw_diff, rec1.length)
            THEN [rv |-> "ENOSPC", rec |-> rec1, header_changed |-> hc1,
                  unlocked |-> FALSE]
            ELSE IF oom = (IF grow THEN 2 ELSE 1)
            THEN [rv |-> "ENOMEM", rec |-> rec1, header_changed |-> hc1,
                  unlocked |-> TRUE]
            ELSE [rv |-> "OK",
                  rec |-> [rec1 EXCEPT
                    !.records = [i \in 1..Len(rec1.records) |->
                        IF i = num + 1
                        THEN [old EXCEPT !.data = Take(dat, length),
                                         !.has_data = TRUE,
                                         !.type = type,
                                         !.format_version = version,
                                         !.length = length % 256]
                        ELSE IF raw_diff # 0 /\ i > num + 1 /\ i <= rec1.num_records
                        THEN [rec1.records[i] EXCEPT !.offset = @ + raw_diff,
                                                     !.changed = TRUE]
                        ELSE rec1.records[i]],
                    !.used_length = @ + raw_diff,
                    !.changed = TRUE],
                  header_changed |-> hc1, unlocked |-> TRUE]
    ELSE
        LET raw_diff == DeletedRecordDiff(old)
            n == rec1.num_records - 1
        IN  [rv |-> "OK",
             rec |-> [rec1 EXCEPT
                !.num_records = n,
                !.records = [i \in 1..Len(rec1.records) |->
                    IF i >= num + 1 /\ i <= n
                    THEN [rec1.records[i + 1] EXCEPT !.offset = @ + raw_diff,
                                                     !.changed = TRUE]
                    ELSE rec1.records[i]],
                !.used_length = @ + raw_diff,
                !.changed = TRUE],
             header_changed |-> IF n = 0 THEN TRUE ELSE hc1,
             unlocked |-> TRUE]

\* The body of ipmi_fru_set_internal_use once the area record is found.
set_internal_use(rec, dat, len, oom) ==
    IF UGt(len, rec.length - 1) THEN [rv |-> "E2BIG", rec |-> rec]
    ELSE IF oom = 1 THEN [rv |-> "ENOMEM", rec |-> rec]
    ELSE [rv |-> "OK",
          rec |-> [rec EXCEPT !.idata = Take(dat, len),
                              !.has_idata = TRUE,
                              !.ilength = len,
                              !.changed = TRUE,
                              !.used_length = len + 1,
                              !.orig_used_length = len + 1]]

(* ----------------------------------------------------------- root node *)

\* get_root_node under locked_list_iterate: the first handler of the list
\* that takes the record, or 0.
FirstMatch(list, type, manufacturer_id) ==
    LET m == {i \in 1..Len(list) :
                /\ list[i].record_type_id = type
                /\ (type < 192 \/ list[i].manufacturer_id = manufacturer_id)}
    IN  IF m = {} THEN 0 ELSE CHOOSE i \in m : \A j \in m : i <= j

\* ipmi_fru_multi_record_get_root_node up to the list iteration: what it
\* returns, or "CALL" with the handler whose get_root it calls.  cmp.rv
\* starts as 0 and every entry that does not match sets it to EINVAL, so
\* an iteration over no entry at all returns 0 with a null node.
multi_record_get_root_node(rec, record_num, list) ==
    IF ~rec.present THEN [rv |-> "ENOSYS", handler |-> 0]
    ELSE IF record_num >= rec.num_records THEN [rv |-> "E2BIG", handler |-> 0]
    ELSE IF rec.records[record_num + 1].length < 3
    THEN [rv |-> "EINVAL", handler |-> 0]
    ELSE
    LET elem == rec.records[record_num + 1]
        Found(h) == IF h # 0 THEN [rv |-> "CALL", handler |-> h]
                    ELSE IF Len(list) = 0 THEN [rv |-> "OK", handler |-> 0]
                    ELSE [rv |-> "EINVAL", handler |-> 0]
    IN  Found(FirstMatch(list, elem.type,
                         elem.data[1] + elem.data[2] * 256
                         + elem.data[3] * 65536))

(* -------------------------------------------------------------- layout *)

\* The nearest present area before and after recn, or -1.
PrevArea(rs, recn) ==
    LET c == {p \in Areas : p < recn /\ rs[p].present}
    IN  IF c = {} THEN -1 ELSE CHOOSE p \in c : \A q \in c : q <= p

NextArea(rs, recn) ==
    LET c == {p \in Areas : p > recn /\ rs[p].present}
    IN  IF c = {} THEN -1 ELSE CHOOSE p \in c : \A q \in c : p <= q

\* check_rec_position: may area recn lie at offset with this length?
check_rec_position(rs, recn, offset, length) ==
    LET data_len == DataLen
        max_start == Min(data_len - 8, 2040)
        prev == PrevArea(rs, recn)
        nxt == NextArea(rs, recn)
    IN  IF offset = 0 \/ offset % 8 # 0 THEN "EINVAL"
        ELSE IF rs[recn].present /\ ULt(length, rs[recn].used_length) THEN "E2BIG"
        ELSE IF UGt(offset, max_start) \/ UGt(offset + length, data_len)
        THEN "EINVAL"
        ELSE IF prev >= 0 /\ ULt(offset, rs[prev].offset + rs[prev].length)
        THEN "EINVAL"
        ELSE IF nxt >= 0 /\ UGt(offset + length, rs[nxt].offset)
        THEN "EINVAL"
        ELSE "OK"

\* length & ~(8-1).
TruncTo8(length) == length - (length % 8)

\* ipmi_fru_add_area after the is-normal-FRU test: [rv, recs, header_changed].
add_area(rs, hc, area, offset, length0, oom) ==
    LET length == TruncTo8(length0)
    IN
    IF area \notin Areas THEN [rv |-> "EINVAL", recs |-> rs, header_changed |-> hc]
    ELSE IF rs[area].present
    THEN [rv |-> "EEXIST", recs |-> rs, header_changed |-> hc]
    ELSE IF check_rec_position(rs, area, offset, length) # "OK"
    THEN [rv |-> check_rec_position(rs, area, offset, length), recs |-> rs,
          header_changed |-> hc]
    ELSE IF oom = 1 THEN [rv |-> "ENOMEM", recs |-> rs, header_changed |-> hc]
    ELSE IF oom = 2 /\ has_get_fields(area)
    THEN [rv |-> "ENOMEM", recs |-> rs, header_changed |-> TRUE]
    ELSE
    LET rec == [fru_record_alloc(area) EXCEPT
                    !.changed = TRUE,
                    !.rewrite = TRUE,
                    !.used_length = empty_length(area),
                    !.orig_used_length = empty_length(area),
                    !.offset = offset,
                    !.length = length]
    IN  [rv |-> "OK",
         recs |-> [rs EXCEPT ![area] = fru_setup_min_field(rec, area, TRUE)],
         header_changed |-> TRUE]

\* ipmi_fru_delete_area: [rv, recs, header_changed].  The area id is an
\* int and only tested against the upper bound, so a negative id gets to
\* recs[area], which lies in front of the array: in the words of the
\* record data that hold version and header_changed.  The call destroys
\* whatever record those words point to and stores NULL over them; `ub`
\* picks the outcome where that kills the process ("trap") or the one where
\* the call survives it and returns with the words cleared ("spill").
delete_area(rs, hc, area, ub) ==
    IF area >= 5 THEN [rv |-> "EINVAL", recs |-> rs, header_changed |-> hc]
    ELSE IF area < 0
    THEN IF ub = "trap"
         THEN [rv |-> "FAULT", recs |-> rs, header_changed |-> hc]
         ELSE [rv |-> "OK", recs |-> rs, header_changed |-> FALSE]
    ELSE [rv |-> "OK", recs |-> [rs EXCEPT ![area] = NoRec],
          header_changed |-> hc]

\* A move that leaves the header flag as it finds it.
HeaderMoved_kept(hc) == hc

\* info->header_changed = 1 after a move.
HeaderMoved(hc) == TRUE

\* ipmi_fru_area_set_offset.
area_set_offset(rs, hc, area, offset) ==
    IF area \notin Areas THEN [rv |-> "EINVAL", recs |-> rs, header_changed |-> hc]
    ELSE IF ~rs[area].present
    THEN [rv |-> "ENOENT", recs |-> rs, header_changed |-> hc]
    ELSE IF rs[area].offset = offset
    THEN [rv |-> "OK", recs |-> rs, header_changed |-> hc]
    ELSE
    LET newlength == IF area = MULTI_RECORD_AREA
                     THEN rs[area].length + rs[area].offset - offset
                     ELSE rs[area].length
        rv1 == check_rec_position(rs, area, offset, newlength)
    IN  IF rv1 # "OK" THEN [rv |-> rv1, recs |-> rs, header_changed |-> hc]
        ELSE [rv |-> "OK",
              recs |-> [rs EXCEPT ![area] =
                          [@ EXCEPT !.length = newlength,
                                    !.offset = offset,
                                    !.changed = TRUE,
                                    !.rewrite = TRUE]],
              header_changed |-> HeaderMoved(hc)]

\* ipmi_fru_area_set_length.
area_set_length(rs, area, length0) ==
    LET length == TruncTo8(length0)
    IN
    IF area \notin Areas THEN [rv |-> "EINVAL", recs |-> rs]
    ELSE IF length = 0 THEN [rv |-> "EINVAL", recs |-> rs]
    ELSE IF ~rs[area].present THEN [rv |-> "ENOENT", recs |-> rs]
    ELSE IF rs[area].length = length THEN [rv |-> "OK", recs |-> rs]
    ELSE
    LET rv1 == check_rec_position(rs, area, rs[area].offset, length)
    IN  IF rv1 # "OK" THEN [rv |-> rv1, recs |-> rs]
        ELSE [rv |-> "OK",
              recs |-> [rs EXCEPT ![area] =
                          [@ EXCEPT !.rewrite = @ \/ UGt(length, rs[area].length),
                                    !.length = length,
                                    !.changed = TRUE]]]

\* ipmi_fru_get_chassis_info_version (index 2 of frul[]) and
\* ipmi_fru_get_chassis_info_type (index 3), after GET_DATA_PREFIX.
chassis_info_get(rs, normal, index) ==
    IF ~normal \/ ~rs[CHASSIS_INFO_AREA].present
    THEN [rv |-> "ENOSYS", out |-> 0]
    ELSE [rv |-> "OK",
          out |-> IF index = 2 THEN rs[CHASSIS_INFO_AREA].version
                  ELSE rs[CHASSIS_INFO_AREA].type]

\* ipmi_fru_area_get_offset, ipmi_fru_area_get_length and
\* ipmi_fru_area_get_used_length: [rv, out], where out is what the call
\* stores through its result pointer (0: nothing stored).
area_get(rs, area, which) ==
    IF area \notin Areas THEN [rv |-> "EINVAL", out |-> 0]
    ELSE IF ~rs[area].present THEN [rv |-> "ENOENT", out |-> 0]
    ELSE [rv |-> "OK",
          out |-> CASE which = "offset" -> rs[area].offset
                    [] which = "length" -> rs[area].length
                    [] OTHER -> rs[area].used_length]

(* -------------------------------------------------------------- encode *)
(* An encoder state is [buf, ups, rv, ub]: the image being rewritten, the  *)
(* update records emitted so far, and "OK", an error code, or "FAULT" when *)
(* the process dies.  A store outside the image buffer is undefined        *)
(* behaviour in C: ub = "trap" is the outcome where it kills the process,  *)
(* ub = "spill" the one where the bytes land outside the image and the     *)
(* encoder carries on.  A store or a checksum over a wrapped (about 4 GB)  *)
(* length dies in either case.  Once rv is not "OK" nothing more is done.  *)

\* _ipmi_fru_new_update_record(fru, offset, length).
new_update_record(es, offset, length) ==
    IF es.rv # "OK" THEN es ELSE [es EXCEPT !.ups = Append(@, <<offset, length>>)]

\* memcpy into the image at off.
Store(es, off, bytes) ==
    IF es.rv # "OK" THEN es
    ELSE IF off >= 0 /\ off + Len(bytes) <= Len(es.buf)
    THEN [es EXCEPT !.buf = Poke(@, off, bytes)]
    ELSE IF es.ub = "trap" THEN [es EXCEPT !.rv = "FAULT"]
    ELSE [es EXCEPT !.buf = [k \in 1..Len(@) |->
                                IF k > off /\ k <= off + Len(bytes)
                                THEN bytes[k - off] ELSE @[k]]]

\* memset(data + off, 0, n) on the image.
Clear(es, off, n) ==
    IF es.rv # "OK" THEN es
    ELSE IF n < 0 THEN [es EXCEPT !.rv = "FAULT"]
    ELSE IF off >= 0 /\ off + n <= Len(es.buf)
    THEN [es EXCEPT !.buf = Fill0(@, off, n)]
    ELSE IF es.ub = "trap" THEN [es EXCEPT !.rv = "FAULT"]
    ELSE [es EXCEPT !.buf = [k \in 1..Len(@) |->
                                IF k > off /\ k <= off + n THEN 0 ELSE @[k]]]

Fail(es, e) == IF es.rv # "OK" THEN es ELSE [es EXCEPT !.rv = e]

\* if (cond) { rv = _ipmi_fru_new_update_record(fru, offset, length); ... }
UpdateIf(cond, es, offset, length) ==
    IF cond THEN new_update_record(es, offset, length) ELSE es

\* The bytes fru_encode_fields stores for one string.
EncodedString(s) ==
    IF s.has_raw THEN Take(s.raw_data, s.raw_len)
    ELSE IF s.has_str THEN ipmi_set_device_string(s.str, s.type, s.length)
    ELSE <<192>>

\* fru_encode_fields from string i on, with the running offset.
RECURSIVE fru_encode_fields(_, _, _, _)
fru_encode_fields(es, rec, i, offset) ==
    IF es.rv # "OK" THEN es
    ELSE IF i < rec.next
    THEN
        LET s == rec.strings[i + 1]
            Put(bytes) ==
                fru_encode_fields(
                    UpdateIf(s.changed /\ ~rec.rewrite,
                             IF offset # s.offset THEN Fail(es, "EBADF")
                             ELSE Store(es, rec.offset + offset, bytes),
                             offset + rec.offset, Len(bytes)),
                    rec, i + 1, offset + Len(bytes))
        IN  Put(EncodedString(s))
    ELSE
        LET Check(e) == IF offset + 1 # rec.used_length - 1
                        THEN Fail(e, "EBADF") ELSE e
        IN  Check(UpdateIf(rec.changed /\ ~rec.rewrite,
                           Store(es, rec.offset + offset, <<193>>),
                           offset + rec.offset, 1))

\* An encoder that leaves the checksum byte as it finds it.
StoreChecksum_skipped(es, rec) == es

\* data[rec->length-1] = -checksum(data, rec->length-1).  A length of 0
\* makes the checksum run over a wrapped length.
StoreChecksum(es, rec) ==
    IF es.rv # "OK" THEN es
    ELSE IF rec.length < 1 \/ rec.offset + rec.length > Len(es.buf)
    THEN Fail(es, "FAULT")
    ELSE Store(es, rec.offset + rec.length - 1,
               <<Neg8(checksum(es.buf, rec.offset, rec.length - 1))>>)

\* The checksum store and the trailing update records shared by the three
\* info area encoders: the zeros left by a shrink, then the checksum.
EncodeInfoTail(es, rec) ==
    UpdateIf(rec.changed /\ ~rec.rewrite,
             UpdateIf(rec.changed /\ ~rec.rewrite
                      /\ rec.used_length < rec.orig_used_length,
                      StoreChecksum(es, rec),
                      rec.offset + rec.used_length - 1,
                      rec.orig_used_length - rec.used_length),
             rec.offset + rec.length - 1, 1)

\* fru_encode_internal_use_area.
fru_encode_internal_use_area(es, rec) ==
    UpdateIf(rec.changed /\ ~rec.rewrite,
             Store(Store(Clear(es, rec.offset, rec.length), rec.offset, <<1>>),
                   rec.offset + 1, Take(rec.idata, rec.ilength)),
             rec.offset, rec.ilength + 1)

\* fru_encode_chassis_info_area.
fru_encode_chassis_info_area(es, rec) ==
    EncodeInfoTail(
        fru_encode_fields(
            UpdateIf(rec.changed /\ ~rec.rewrite,
                     Store(Clear(es, rec.offset, rec.length), rec.offset,
                           <<1, (rec.length \div 8) % 256, rec.type>>),
                     rec.offset, 3),
            rec, 0, 3),
        rec)

\* fru_encode_board_info_area: the one encoder that does not zero the area.
fru_encode_board_info_area(es, rec) ==
    EncodeInfoTail(
        fru_encode_fields(
            UpdateIf(rec.changed /\ ~rec.rewrite,
                     Store(es, rec.offset,
                           <<1, (rec.length \div 8) % 256, rec.lang_code>>
                           \o write_fru_time(rec.mfg_time)),
                     rec.offset, 6),
            rec, 0, 6),
        rec)

\* fru_encode_product_info_area.
fru_encode_product_info_area(es, rec) ==
    EncodeInfoTail(
        fru_encode_fields(
            UpdateIf(rec.changed /\ ~rec.rewrite,
                     Store(Clear(es, rec.offset, rec.length), rec.offset,
                           <<1, (rec.length \div 8) % 256, rec.lang_code>>),
                     rec.offset, 3),
            rec, 0, 3),
        rec)

\* An encoder that marks every record as the last one.
RecordHeader_all_last(rec, idx) ==
    LET elem == rec.records[idx + 1]
        Sum(h) == h \o <<Neg8(checksum(h, 0, 4))>>
    IN  Sum(<<elem.type, 130, elem.length,
              Neg8(checksum(Take(elem.data, elem.length), 0, elem.length))>>)

\* The five header bytes fru_encode_multi_record stores for record idx.
RecordHeader(rec, idx) ==
    LET elem == rec.records[idx + 1]
        Sum(h) == h \o <<Neg8(checksum(h, 0, 4))>>
    IN  Sum(<<elem.type,
              IF idx + 1 = rec.num_records THEN 130 ELSE 2,
              elem.length,
              Neg8(checksum(Take(elem.data, elem.length), 0, elem.length))>>)

\* fru_encode_multi_record for record idx, with the running offset.
RECURSIVE fru_encode_multi_record(_, _, _, _)
fru_encode_multi_record(es, rec, idx, o) ==
    IF es.rv # "OK" \/ idx >= rec.num_records THEN es
    ELSE
    LET elem == rec.records[idx + 1]
    IN  fru_encode_multi_record(
            UpdateIf(rec.changed /\ ~rec.rewrite,
                     IF o # elem.offset THEN Fail(es, "EBADF")
                     ELSE Store(es, rec.offset + o,
                                RecordHeader(rec, idx)
                                \o Take(elem.data, elem.length)),
                     rec.offset + elem.offset, elem.length + 5),
            rec, idx + 1, o + elem.length + 5)

\* fru_encode_multi_record_area.
fru_encode_multi_record_area(es, rec) ==
    fru_encode_multi_record(Clear(es, rec.offset, rec.length), rec, 0, 0)

\* fru_area_info[area].encode.
area_encode(area, es, rec) ==
    CASE area = INTERNAL_USE_AREA -> fru_encode_internal_use_area(es, rec)
      [] area = CHASSIS_INFO_AREA -> fru_encode_chassis_info_area(es, rec)
      [] area = BOARD_INFO_AREA -> fru_encode_board_info_area(es, rec)
      [] area = PRODUCT_INFO_AREA -> fru_encode_product_info_area(es, rec)
      [] OTHER -> fru_encode_multi_record_area(es, rec)

\* The area loop of fru_write: encode, then one update record for an area
\* that is to be rewritten as a whole.
RECURSIVE WriteAreas(_, _, _)
WriteAreas(es, rs, i) ==
    IF i >= 5 \/ es.rv # "OK" THEN es
    ELSE IF ~rs[i].present THEN WriteAreas(es, rs, i + 1)
    ELSE
    WriteAreas(UpdateIf(rs[i].rewrite, area_encode(i, es, rs[i]), rs[i].offset,
                        IF i = MULTI_RECORD_AREA
                        THEN rs[i].used_length ELSE rs[i].length),
               rs, i + 1)

\* A header writer that keeps the entry of every area record it finds.
HeaderOffsetByte_kept(rs, i) ==
    IF rs[i].present THEN (rs[i].offset \div 8) % 256 ELSE 0

\* The header byte fru_write stores for area i.
HeaderOffsetByte(rs, i) ==
    IF rs[i].present /\ (i # MULTI_RECORD_AREA \/ rs[i].used_length # 0)
    THEN (rs[i].offset \div 8) % 256
    ELSE 0

\* fru_write: the encoder state after the whole image is rewritten.
fru_write(buf, rs, hc, ub) ==
    LET Sum(h) == h \o <<Neg8(checksum(h, 0, 7))>>
    IN  WriteAreas(
            UpdateIf(hc,
                     [buf |-> Poke(buf, 0,
                                   Sum(<<1>> \o [i \in 1..5 |->
                                                    HeaderOffsetByte(rs, i - 1)]
                                       \o <<0>>)),
                      ups |-> <<>>, rv |-> "OK", ub |-> ub],
                     0, 8),
            rs, 0)

\* fru_write_complete: clears the dirty state of every area record.
fru_write_complete(rs) ==
    [i \in Areas |->
        IF ~rs[i].present THEN rs[i]
        ELSE [rs[i] EXCEPT
                !.rewrite = FALSE,
                !.changed = FALSE,
                !.orig_used_length = rs[i].used_length,
                !.strings = IF has_get_fields(i) /\ rs[i].next > 0
                            THEN [@ EXCEPT ![i + 1] = [@ EXCEPT !.changed = FALSE]]
                            ELSE @]]

\* What the write-back does with the update records: each range of the
\* buffer is copied to the device.
RECURSIVE ApplyUpdates(_, _, _)
ApplyUpdates(img, buf, ups) ==
    IF ups = <<>> THEN img
    ELSE ApplyUpdates(
            [k \in 1..Len(img) |->
                IF k > ups[1][1] /\ k <= ups[1][1] + ups[1][2] THEN buf[k] ELSE img[k]],
            buf, Tail(ups))

(* ---------------------------------------------------- navigation nodes *)
(* A navigation node is [kind, index, mr_node]: kind "root", "array" (the  *)
(* custom strings of one field), "mr_array" (the multi-records), "mr_idx"  *)
(* (the wrapper of one multi-record) or "decoder" (the node a decoder made *)
(* for a record); index is the field or record index the node stands for;  *)
(* mr_node says that a wrapper holds a decoder's node.  The reference      *)
(* counts themselves (ipmi_fru_ref, ipmi_fru_deref, _ipmi_fru_node_alloc,  *)
(* ipmi_fru_put_node) live in the generic FRU module; they are modelled    *)
(* from their description: a node is destroyed when its last holder puts   *)
(* it, and its destructor then runs once.                                  *)

NoNode == [kind |-> "none", index |-> 0, mr_node |-> FALSE]
FruNode(kind, index, mr_node) ==
    [kind |-> kind, index |-> index, mr_node |-> mr_node]

\* What a getter stores through its result pointers: an integer (intval,
\* or a length), a byte string, a navigation node.
NoOut == [int |-> 0, data |-> <<>>, node |-> NoNode]

\* What a node call leaves: its return value, what it stored through its
\* result pointers, and the number of FRU references it took.
Got(rv, int, dat, node, ref) ==
    [rv |-> rv, out |-> [int |-> int, data |-> dat, node |-> node],
     ref |-> ref]
Failed(rv) == Got(rv, 0, <<>>, NoNode, 0)

\* The frul[] table: 26 fields, the custom-string arrays at 6, 15 and 25.
NUM_FRUL_ENTRIES == 26
CustomArea(index) ==
    CASE index = 6 -> CHASSIS_INFO_AREA
      [] index = 15 -> BOARD_INFO_AREA
      [] index = 25 -> PRODUCT_INFO_AREA
      [] OTHER -> -1

\* The number of custom strings ipmi_fru_get_<area>_custom_len can reach:
\* none when the area is absent.
CustomCount(rs, area) ==
    IF rs[area].present THEN rs[area].next - num_fixed_fields(area) ELSE 0

\* fru_get_root_node.  `want` says that a node pointer was passed, `oom`
\* numbers the allocation that fails (0: none).
fru_get_root_node(want, oom) ==
    IF ~want THEN Got("OK", 0, <<>>, NoNode, 0)
    ELSE IF oom = 1 THEN Failed("ENOMEM")
    ELSE Got("OK", 0, <<>>, FruNode("root", 0, FALSE), 1)

\* A wrapper accessor that gives back its reference when the lookup fails.
WrapperRefs_released(rv) == IF rv = "OK" THEN 1 ELSE 0

\* ipmi_fru_ref(fru) in fru_mr_array_get_field: taken before the decoder
\* lookup, and kept whatever the lookup returns.
WrapperRefs(rv) == 1

\* fru_node_get_field, the get_field of the root node, for the custom
\* arrays, for the multi-records entry, for an index past it, and for the
\* scalar chassis_info_type (index 3).  The length of a custom array is
\* found by asking for the string after the current one until that fails.
fru_node_get_field(rs, index, want_int, want_sub, oom) ==
    IF index >= 0 /\ index < NUM_FRUL_ENTRIES
    THEN IF CustomArea(index) # -1
         THEN LET c == CustomCount(rs, CustomArea(index))
              IN  IF want_sub /\ oom \in {1, 2} THEN Failed("ENOMEM")
                  ELSE Got("OK",
                           IF ~want_int THEN 0 ELSE IF c < 2 THEN 1 ELSE c,
                           <<>>,
                           IF want_sub THEN FruNode("array", index, FALSE)
                           ELSE NoNode,
                           IF want_sub THEN 1 ELSE 0)
         ELSE IF ~want_int THEN Got("OK", 0, <<>>, NoNode, 0)
         ELSE IF ~rs[CHASSIS_INFO_AREA].present THEN Failed("ENOSYS")
         ELSE Got("OK", rs[CHASSIS_INFO_AREA].type, <<>>, NoNode, 0)
    ELSE IF index = NUM_FRUL_ENTRIES
    THEN IF ~rs[MULTI_RECORD_AREA].present THEN Failed("ENOSYS")
         ELSE IF want_sub /\ oom = 1 THEN Failed("ENOMEM")
         ELSE Got("OK",
                  IF want_int THEN rs[MULTI_RECORD_AREA].num_records ELSE 0,
                  <<>>,
                  IF want_sub THEN FruNode("mr_array", 0, FALSE) ELSE NoNode,
                  IF want_sub THEN 1 ELSE 0)
    ELSE Failed("EINVAL")

\* fru_mr_array_get_field, the get_field of the multi-records node: makes
\* the wrapper of record `index`.  `list` is the decoder list and `cbrv`
\* what the decoder returns if one is called.
fru_mr_array_get_field(rs, index, want_sub, oom, list, cbrv) ==
    LET n == IF rs[MULTI_RECORD_AREA].present
             THEN rs[MULTI_RECORD_AREA].num_records ELSE 0
        Wrap(r) ==
            LET rv == IF r.rv = "CALL" THEN cbrv ELSE r.rv
            IN  Got(rv, -1, <<>>,
                    FruNode("mr_idx", index, r.rv = "CALL" /\ rv = "OK"),
                    WrapperRefs(rv))
    IN  IF index >= n THEN Failed("EINVAL")
        ELSE IF ~want_sub THEN Got("OK", -1, <<>>, NoNode, 0)
        ELSE IF oom \in {1, 2} THEN Failed("ENOMEM")
        ELSE Wrap(multi_record_get_root_node(rs[MULTI_RECORD_AREA], index,
                                             list))

\* fru_mr_array_idx_get_field, the get_field of a wrapper: child 0 is the
\* raw payload (with its length), child 1 the decoder's node.
fru_mr_array_idx_get_field(rs, node, index, want_data, want_sub, oom) ==
    IF index = 0
    THEN IF ~rs[MULTI_RECORD_AREA].present THEN Failed("ENOSYS")
         ELSE IF node.index >= rs[MULTI_RECORD_AREA].num_records
         THEN Failed("E2BIG")
         ELSE IF want_data /\ oom = 1 THEN Failed("ENOMEM")
         ELSE LET elem == rs[MULTI_RECORD_AREA].records[node.index + 1]
              IN  Got("OK", elem.length,
                      IF want_data THEN Take(elem.data, elem.length)
                      ELSE <<>>,
                      NoNode, 0)
    ELSE IF index = 1
    THEN IF ~node.mr_node THEN Failed("EINVAL")
         ELSE Got("OK", -1, <<>>,
                  IF want_sub THEN FruNode("decoder", node.index, FALSE)
                  ELSE NoNode,
                  0)
    ELSE Failed("EINVAL")

\* fru_array_idx_get_field, the get_field of a custom-string array: the
\* custom string `index` through ipmi_fru_get, with E2BIG and ENOSYS
\* turned into EINVAL.
fru_array_idx_get_field(rs, node, index, want_data, oom) ==
    LET area == CustomArea(node.index)
        num == num_fixed_fields(area) + index
    IN  IF ~want_data THEN Got("OK", 0, <<>>, NoNode, 0)
        ELSE IF ~rs[area].present \/ num >= rs[area].next
        THEN Failed("EINVAL")
        ELSE IF oom = 1 THEN Failed("ENOMEM")
        ELSE IF ~rs[area].strings[num + 1].has_str THEN Failed("EINVAL")
        ELSE Got("OK", rs[area].strings[num + 1].length,
                 Take(rs[area].strings[num + 1].str,
                      rs[area].strings[num + 1].length),
                 NoNode, 0)

\* The destructor of a node: fru_node_destroy, fru_array_idx_destroy and
\* fru_mr_array_idx_destroy release one FRU reference; a decoder's node
\* holds none.
destroy_refs(node) == IF node.kind = "decoder" THEN 0 ELSE 1

(* ------------------------------------------------------ string getters *)
(* A caller's buffer is not kept byte by byte: a getter result holds the   *)
(* bytes copied into it (data), the positions of the buffer that were      *)
(* written (first .. last, last < first when nothing was written) and the  *)
(* length reported.  The reported length is the C int clen before it is    *)
(* stored in the unsigned *length: -1 stands for 0xffffffff.               *)

\* A getter that leaves an ASCII string without its terminating NUL when
\* the buffer is full.
AsciiEnd_unterminated(clen, n) == clen

\* "NIL terminate the ASCII string": if (clen == *length) clen--.
AsciiEnd(clen, n) == IF clen = n THEN clen - 1 ELSE clen

\* fru_string_to_out(out, length, in) with *length = n on entry.
fru_string_to_out(in, n) ==
    IF ~in.has_str
    THEN [rv |-> "ENOSYS", length |-> n, data |-> <<>>, first |-> 0, last |-> -1]
    ELSE
    LET clen == IF in.length > n THEN n ELSE in.length
        Out(end) ==
            [rv |-> "OK", length |-> end, data |-> Take(in.str, Min(clen, end)),
             first |-> IF in.type = "ASCII" THEN Min(0, end) ELSE 0,
             last |-> IF in.type = "ASCII" THEN end ELSE clen - 1]
    IN  Out(IF in.type = "ASCII" THEN AsciiEnd(clen, n) ELSE clen)

\* fru_variable_string_to_out.
fru_variable_string_to_out(rec, num, n) ==
    IF num >= rec.next
    THEN [rv |-> "E2BIG", length |-> n, data |-> <<>>, first |-> 0, last |-> -1]
    ELSE fru_string_to_out(rec.strings[num + 1], n)

\* fru_variable_string_length: an ASCII string counts its NUL.
fru_variable_string_length(rec, num) ==
    IF num >= rec.next THEN [rv |-> "E2BIG", length |-> 0]
    ELSE [rv |-> "OK",
          length |-> IF rec.strings[num + 1].type = "ASCII"
                     THEN rec.strings[num + 1].length + 1
                     ELSE rec.strings[num + 1].length]

\* fru_variable_string_type.
fru_variable_string_type(rec, num) ==
    IF num >= rec.next THEN [rv |-> "E2BIG", type |-> "ASCII"]
    ELSE [rv |-> "OK", type |-> rec.strings[num + 1].type]

\* The F_STR entries of frul[]: the area and the field of a table index.
FrulStrArea(index) ==
    IF index \in 4..5 THEN CHASSIS_INFO_AREA
    ELSE IF index \in 10..14 THEN BOARD_INFO_AREA
    ELSE PRODUCT_INFO_AREA
FrulStrField(index) ==
    IF index \in 4..5 THEN index - 4
    ELSE IF index \in 10..14 THEN index - 10
    ELSE index - 18

\* The locals of ipmi_fru_get: where the call stands ("idle": no call is
\* under way), the table index, rdtype, len and the bytes in dval; `seen`
\* is not in the code: it keeps the values the field had at the getter
\* calls made so far, for the claims to refer to.
NoGet ==
    [pc |-> "idle", index |-> 0, type |-> "ASCII", len |-> 0, data |-> <<>>,
     seen |-> {}]

(* --------------------------------------------------------------- state *)

VARIABLES
    data,            \* the FRU's image buffer (_ipmi_fru_get_data_ptr)
    media,           \* the image on the device, as last written back
    recs,            \* normal_fru_rec_data_t.recs
    header_changed,  \* normal_fru_rec_data_t.header_changed
    phase,           \* "unloaded", "loaded", "failed" (decode error), "crashed"
    is_normal_fru,   \* _ipmi_fru_is_normal_fru
    rec_data,        \* TRUE while _ipmi_fru_get_rec_data is not NULL
    ops_installed,   \* the write, write_complete, root-node handlers are set
    updates,         \* the update records of the last write, in order
    written,         \* a write succeeded and is not yet acknowledged
    op,              \* the last call made
    rv,              \* what it returned
    lock,            \* TRUE while the FRU lock is held
    nops,            \* the number of calls made after the decode
    fetch_mask,      \* the areas in _ipmi_fru_get_fetch_mask
    callback,        \* "none", or whose get_root is running: "std", "oem"
    call,            \* the index and payload arguments of the last call
    out,             \* what the last getter stored through its result pointers
    refcount,        \* the FRU's reference count
    nodes,           \* the navigation nodes created and not yet destroyed
    get              \* the locals of an ipmi_fru_get call and where it stands

vars == <<data, media, recs, header_changed, phase, is_normal_fru, rec_data,
          ops_installed, updates, written, op, rv, lock, nops, fetch_mask,
          callback, call, out, refcount, nodes, get>>

\* The arguments kept of a call: the area a string setter works on (-1 for
\* the other calls), an index or value, whether a payload or result
\* pointer was given and, for a multi-record decoder lookup, the handler
\* list it ran over and the position of the handler it called (0: none).
CallArgs(area, num, given, list, handler) ==
    [area |-> area, num |-> num, given |-> given, list |-> list,
     handler |-> handler, node |-> NoNode, cap |-> 0]
AreaArgs(area, num, given) == CallArgs(area, num, given, <<>>, 0)
Args(num, given) == AreaArgs(-1, num, given)
NoArgs == Args(0, FALSE)

\* The arguments kept of a call made on a navigation node.
NodeArgs(node, num, given, list) ==
    [CallArgs(-1, num, given, list, 0) EXCEPT !.node = node]

Init ==
    /\ data \in InputImages
    /\ media = data
    /\ recs = [i \in Areas |-> NoRec]
    /\ header_changed = FALSE
    /\ phase = "unloaded"
    /\ is_normal_fru = FALSE
    /\ rec_data = FALSE
    /\ ops_installed = FALSE
    /\ updates = <<>>
    /\ written = FALSE
    /\ op = "none"
    /\ rv = "OK"
    /\ lock = FALSE
    /\ nops = 0
    /\ fetch_mask = Areas
    /\ callback = "none"
    /\ call = NoArgs
    /\ out = NoOut
    /\ refcount = 1
    /\ nodes = <<>>
    /\ get = NoGet

\* The decoder entry point, called once on the fetched image.
Decode ==
    /\ phase = "unloaded"
    /\ \E oom \in BOOLEAN :
          LET Result(d) ==
               /\ recs' = d.recs
               /\ rv' = d.err
               /\ phase' = IF d.err = "OK" THEN "loaded" ELSE "failed"
               /\ is_normal_fru' = d.installed
               /\ ops_installed' = d.installed
               /\ rec_data' = (d.installed /\ d.err = "OK")
          IN  Result(process_fru_info(data, fetch_mask, oom))
    /\ op' = "decode"
    /\ UNCHANGED <<data, media, header_changed, updates, written, lock, nops,
                   fetch_mask, callback, call, out, refcount, nodes, get>>

(* ------------------------------------------------------- call inputs *)

\* The values the string setters are called with: a null string with a
\* zero and a nonzero length, an empty string, one character, and seven
\* binary bytes.
StrInputs ==
    { [type |-> "ASCII",  has_str |-> FALSE, str |-> <<>>, len |-> 0],
      [type |-> "ASCII",  has_str |-> FALSE, str |-> <<>>, len |-> 2],
      [type |-> "ASCII",  has_str |-> TRUE,  str |-> <<>>, len |-> 0],
      [type |-> "ASCII",  has_str |-> TRUE,  str |-> <<90>>, len |-> 1],
      [type |-> "BINARY", has_str |-> TRUE,
       str |-> <<1, 2, 3, 4, 5, 6, 7>>, len |-> 7] }

\* The fixed fields set in each area: the first and the last.
FixedInputs(area) == {0, num_fixed_fields(area) - 1}

\* Custom ordinals: the first, the second, and MAX_INT, the value the
\* source names as the one that must not overflow.
CustomInputs == {0, 1, 2147483647}

\* Multi-record payloads: null, empty, one byte, six bytes.
RecordInputs ==
    { [has_data |-> FALSE, dat |-> <<>>, length |-> 0],
      [has_data |-> TRUE,  dat |-> <<>>, length |-> 0],
      [has_data |-> TRUE,  dat |-> <<9>>, length |-> 1],
      [has_data |-> TRUE,  dat |-> <<1, 2, 3, 4, 5, 6>>, length |-> 6] }

RecordNums == {0, 1, 5}

InternalInputs == { <<>>, <<7>>, <<7, 7, 7, 7, 7, 7, 7, 7, 7>> }

\* Area ids: the five kinds, 5, and -1 (which is 0xffffffff where the
\* parameter is an unsigned int).
AreaInputs == -1..5
OffsetInputs == {8, 12, 16, 24, 40}
LengthInputs == {0, 8, 13, 16}

\* FRU time counts minutes from 1996; these are minutes 0 and 1, and the
\* first minute that does not fit in three bytes.
TimeInputs ==
    {FRU_TIME_TO_UNIX_TIME(0), FRU_TIME_TO_UNIX_TIME(1),
     FRU_TIME_TO_UNIX_TIME(16777216)}

\* The handlers _ipmi_normal_fru_init registers for record types 0, 1, 2.
StdHandlers ==
    [i \in 1..3 |-> [manufacturer_id |-> 0, record_type_id |-> i - 1,
                     user |-> FALSE]]

\* What _ipmi_fru_register_multi_record_oem_handler has added to the list:
\* nothing, or one OEM decoder.
OemHandlers ==
    { <<>>,
      <<[manufacturer_id |-> 197121, record_type_id |-> 192, user |-> TRUE]>>,
      <<[manufacturer_id |-> 5, record_type_id |-> 192, user |-> TRUE]>>,
      <<[manufacturer_id |-> 0, record_type_id |-> 3, user |-> TRUE]>> }

\* The decoder list at the time of a lookup: the built-in decoders and
\* what was registered after them, or nothing once
\* _ipmi_fru_deregister_multi_record_oem_handler has removed the built-in
\* ones.
HandlerLists == {StdHandlers \o oem : oem \in OemHandlers} \cup {<<>>}

(* ------------------------------------------------------------- actions *)

\* A caller may enter an edit call: the image is decoded, nobody holds the
\* FRU lock (_ipmi_fru_lock would block), and no write awaits its
\* acknowledgement.
CanCall ==
    phase = "loaded" /\ ~lock /\ callback = "none" /\ ~written /\ nops < MaxOps

\* What one edit call leaves behind.
Edit(name, args, r, rs, hc, lk) ==
    /\ op' = name
    /\ call' = args
    /\ rv' = r
    /\ recs' = rs
    /\ header_changed' = hc
    /\ lock' = lk
    /\ nops' = nops + 1
    /\ UNCHANGED <<data, media, phase, is_normal_fru, rec_data, ops_installed,
                   updates, written, fetch_mask, callback, out, refcount, nodes, get>>

\* ipmi_fru_set_<area>_<field>, from GET_DATA_STR.
SetString ==
    /\ CanCall
    /\ \E area \in {CHASSIS_INFO_AREA, BOARD_INFO_AREA, PRODUCT_INFO_AREA} :
       \E idx \in FixedInputs(area), s \in StrInputs, oom \in 0..1 :
          IF ~recs[area].present
          THEN Edit("set_string", AreaArgs(area, idx, s.has_str), "ENOSYS",
                    recs, header_changed, FALSE)
          ELSE LET Done(r) == Edit("set_string",
                                   AreaArgs(area, idx, s.has_str), r.rv,
                                   [recs EXCEPT ![area] = r.rec],
                                   header_changed, FALSE)
               IN  Done(fru_variable_string_set(recs[area], 0, idx, s.type,
                                                s.has_str, s.str, s.len, FALSE,
                                                oom))

\* ipmi_fru_set_<area>_custom, from GET_CUSTOM_STR.
SetCustom ==
    /\ CanCall
    /\ \E area \in {CHASSIS_INFO_AREA, BOARD_INFO_AREA, PRODUCT_INFO_AREA} :
       \E num \in CustomInputs, s \in StrInputs, oom \in 0..2 :
          IF ~recs[area].present
          THEN Edit("set_custom", AreaArgs(area, num, s.has_str), "ENOSYS",
                    recs, header_changed, FALSE)
          ELSE LET Done(r) == Edit("set_custom",
                                   AreaArgs(area, num, s.has_str), r.rv,
                                   [recs EXCEPT ![area] = r.rec],
                                   header_changed, FALSE)
               IN  Done(fru_variable_string_set(recs[area],
                                                num_fixed_fields(area), num,
                                                s.type, s.has_str, s.str, s.len,
                                                TRUE, oom))

\* ipmi_fru_set_chassis_info_type, ipmi_fru_set_board_info_lang_code,
\* ipmi_fru_set_board_info_mfg_time, ipmi_fru_set_product_info_lang_code.
SetScalar ==
    /\ CanCall
    /\ \E f \in { [area |-> CHASSIS_INFO_AREA, field |-> "type", v |-> 5],
                  [area |-> BOARD_INFO_AREA, field |-> "lang_code", v |-> 0],
                  [area |-> BOARD_INFO_AREA, field |-> "lang_code", v |-> 3],
                  [area |-> PRODUCT_INFO_AREA, field |-> "lang_code", v |-> 3] }
              \cup [area : {BOARD_INFO_AREA}, field : {"mfg_time"}, v : TimeInputs] :
          IF ~recs[f.area].present
          THEN Edit("set_scalar", Args(f.v, f.field = "mfg_time"), "ENOSYS",
                    recs, header_changed, FALSE)
          ELSE LET rec == recs[f.area]
                   old == CASE f.field = "type" -> rec.type
                            [] f.field = "lang_code" -> rec.lang_code
                            [] OTHER -> rec.mfg_time
                   rec1 == CASE f.field = "type" -> [rec EXCEPT !.type = f.v]
                             [] f.field = "lang_code" -> [rec EXCEPT !.lang_code = f.v]
                             [] OTHER -> [rec EXCEPT !.mfg_time = f.v]
               IN  Edit("set_scalar", Args(f.v, f.field = "mfg_time"), "OK",
                        [recs EXCEPT ![f.area] =
                            [rec1 EXCEPT !.changed = @ \/ old # f.v]],
                        header_changed, FALSE)

\* ipmi_fru_set_multi_record.
SetMultiRecord ==
    /\ CanCall
    /\ \E num \in RecordNums, d \in RecordInputs, oom \in 0..2 :
          IF ~recs[MULTI_RECORD_AREA].present
          THEN Edit("set_multi_record", Args(num, d.has_data), "ENOSYS",
                    recs, header_changed, FALSE)
          ELSE LET Done(r) == Edit("set_multi_record",
                                   Args(num, d.has_data), r.rv,
                                   [recs EXCEPT ![MULTI_RECORD_AREA] = r.rec],
                                   r.header_changed, ~r.unlocked)
               IN  Done(set_multi_record(recs[MULTI_RECORD_AREA], header_changed,
                                         num, 3, 2, d.has_data, d.dat, d.length,
                                         oom))

\* ipmi_fru_set_internal_use.
SetInternalUse ==
    /\ CanCall
    /\ \E d \in InternalInputs, oom \in 0..1 :
          IF ~recs[INTERNAL_USE_AREA].present
          THEN Edit("set_internal_use", NoArgs, "ENOSYS", recs, header_changed, FALSE)
          ELSE LET Done(r) == Edit("set_internal_use", NoArgs, r.rv,
                                   [recs EXCEPT ![INTERNAL_USE_AREA] = r.rec],
                                   header_changed, FALSE)
               IN  Done(set_internal_use(recs[INTERNAL_USE_AREA], d, Len(d), oom))

\* ipmi_fru_add_area.
AddArea ==
    /\ CanCall
    /\ \E area \in AreaInputs, offset \in OffsetInputs, length \in LengthInputs,
          oom \in 0..2 :
          LET Done(r) == Edit("add_area", Args(area, FALSE), r.rv, r.recs,
                              r.header_changed, FALSE)
          IN  Done(add_area(recs, header_changed, area, offset, length, oom))

\* ipmi_fru_delete_area.
DeleteArea ==
    /\ CanCall
    /\ \E area \in AreaInputs, ub \in {"trap", "spill"} :
          LET Done(r) ==
                /\ rv' = r.rv
                /\ recs' = r.recs
                /\ header_changed' = r.header_changed
                /\ phase' = IF r.rv = "FAULT" THEN "crashed" ELSE phase
                /\ call' = Args(area, FALSE)
          IN  Done(delete_area(recs, header_changed, area, ub))
    /\ op' = "delete_area"
    /\ nops' = nops + 1
    /\ UNCHANGED <<data, media, is_normal_fru, rec_data, ops_installed, updates,
                   written, lock, fetch_mask, callback, out, refcount, nodes, get>>

\* ipmi_fru_area_set_offset.
SetAreaOffset ==
    /\ CanCall
    /\ \E area \in AreaInputs, offset \in OffsetInputs :
          LET Done(r) == Edit("area_set_offset", Args(area, FALSE), r.rv,
                              r.recs, r.header_changed, FALSE)
          IN  Done(area_set_offset(recs, header_changed, area, offset))

\* ipmi_fru_area_set_length.
SetAreaLength ==
    /\ CanCall
    /\ \E area \in AreaInputs, length \in LengthInputs \cup {24} :
          LET Done(r) == Edit("area_set_length", Args(area, FALSE), r.rv,
                              r.recs, header_changed, FALSE)
          IN  Done(area_set_length(recs, area, length))

\* ipmi_fru_area_get_offset, ipmi_fru_area_get_length,
\* ipmi_fru_area_get_used_length.
GetAreaInfo ==
    /\ CanCall
    /\ \E area \in AreaInputs, which \in {"offset", "length", "used_length"} :
          LET Done(r) == /\ rv' = r.rv
                         /\ out' = [NoOut EXCEPT !.int = r.out]
                         /\ call' = Args(area, FALSE)
          IN  Done(area_get(recs, area, which))
    /\ op' = "area_get"
    /\ nops' = nops + 1
    /\ UNCHANGED <<data, media, recs, header_changed, phase, is_normal_fru,
                   rec_data, ops_installed, updates, written, lock, fetch_mask,
                   callback, refcount, nodes, get>>

\* ipmi_fru_multi_record_get_root_node, up to its return or to the call of a
\* handler's get_root, which is made inside the list iteration and before
\* _ipmi_fru_unlock.
GetRootNode ==
    /\ CanCall
    /\ \E record_num \in RecordNums, list \in HandlerLists :
          LET Done(r) ==
                /\ rv' = r.rv
                /\ lock' = (r.rv = "CALL")
                /\ callback' = IF r.rv # "CALL" THEN "none"
                                ELSE IF list[r.handler].user THEN "oem"
                                ELSE "std"
                /\ call' = CallArgs(-1, record_num, TRUE, list, r.handler)
          IN  Done(multi_record_get_root_node(recs[MULTI_RECORD_AREA],
                                              record_num, list))
    /\ op' = "get_root_node"
    /\ nops' = nops + 1
    /\ UNCHANGED <<data, media, recs, header_changed, phase, is_normal_fru,
                   rec_data, ops_installed, updates, written, fetch_mask, out,
                   refcount, nodes, get>>

\* The handler's get_root returns; the iteration stops and the FRU lock is
\* released.
GetRootNodeReturn ==
    /\ callback # "none"
    /\ \E r \in {"OK", "EINVAL", "ENOMEM"} : rv' = r
    /\ lock' = FALSE
    /\ callback' = "none"
    /\ UNCHANGED <<data, media, recs, header_changed, phase, is_normal_fru,
                   rec_data, ops_installed, updates, written, op, nops,
                   fetch_mask, call, out, refcount, nodes, get>>

\* The write handler: fru_write rewrites the image buffer in place and
\* leaves the update records of this write.  A write that returns an error
\* leaves no update records to apply.
Write ==
    /\ phase = "loaded" /\ ~lock /\ callback = "none" /\ ~written
    /\ \E ub \in {"trap", "spill"} :
          LET Done(es) ==
                /\ rv' = es.rv
                /\ IF es.rv = "FAULT"
                   THEN /\ phase' = "crashed"
                        /\ UNCHANGED <<data, updates, written>>
                   ELSE /\ data' = es.buf
                        /\ updates' = IF es.rv = "OK" THEN es.ups ELSE <<>>
                        /\ written' = (es.rv = "OK")
                        /\ UNCHANGED phase
          IN  Done(fru_write(data, recs, header_changed, ub))
    /\ op' = "write"
    /\ call' = NoArgs
    /\ UNCHANGED <<media, recs, header_changed, is_normal_fru, rec_data,
                   ops_installed, lock, nops, fetch_mask, callback, out,
                   refcount, nodes, get>>

\* The write-back has put the update records on the device and calls the
\* write_complete handler.
WriteComplete ==
    /\ phase = "loaded" /\ written
    /\ media' = ApplyUpdates(media, data, updates)
    /\ recs' = fru_write_complete(recs)
    /\ updates' = <<>>
    /\ written' = FALSE
    /\ op' = "write_complete"
    /\ rv' = "OK"
    /\ call' = NoArgs
    /\ UNCHANGED <<data, header_changed, phase, is_normal_fru, rec_data,
                   ops_installed, lock, nops, fetch_mask, callback, out,
                   refcount, nodes, get>>

Next ==
    \/ Decode
    \/ SetString
    \/ SetCustom
    \/ SetScalar
    \/ SetMultiRecord
    \/ SetInternalUse
    \/ AddArea
    \/ DeleteArea
    \/ SetAreaOffset
    \/ SetAreaLength
    \/ GetAreaInfo
    \/ GetRootNode
    \/ GetRootNodeReturn
    \/ Write
    \/ WriteComplete

Spec == Init /\ [][Next]_vars

(* ---------------------------------------------------------- navigation *)
(* A third specification, for the tree of navigation nodes: the image is   *)
(* decoded and nodes are made from the root down, read and destroyed, by   *)
(* the owner of the FRU and after it has let go of the FRU.                *)

\* The indexes get_field is called with: on the root node a scalar, two
\* custom arrays, the multi-records entry and the index behind it; on the
\* other nodes the first three children.
IndexInputs(node) ==
    IF node.kind = "root" THEN {3, 6, 15, NUM_FRUL_ENTRIES, NUM_FRUL_ENTRIES + 1}
    ELSE {0, 1, 2}

\* A node call can be made: the FRU is alive and nobody holds its lock.
CanNavigate ==
    /\ phase \in {"loaded", "released"}
    /\ ~lock /\ callback = "none" /\ ~written

\* What one node call leaves behind; a call that makes a node is made
\* while there is room for one.
Navigate(name, args, r) ==
    /\ r.out.node = NoNode \/ Len(nodes) < MaxNodes
    /\ op' = name
    /\ call' = args
    /\ rv' = r.rv
    /\ out' = r.out
    /\ refcount' = refcount + r.ref
    /\ nodes' = IF r.out.node = NoNode THEN nodes ELSE Append(nodes, r.out.node)
    /\ UNCHANGED <<data, media, recs, header_changed, phase, is_normal_fru,
                   rec_data, ops_installed, updates, written, lock, nops,
                   fetch_mask, callback, get>>

\* The root accessor, called by the owner of the FRU.
FruGetRootNode ==
    /\ CanNavigate
    /\ phase = "loaded"
    /\ \E want \in BOOLEAN, oom \in 0..1 :
          Navigate("get_root", Args(0, want), fru_get_root_node(want, oom))

\* ipmi_fru_node_get_field on a node made earlier; the decoder a wrapper
\* accessor looks up runs inside the call.
NodeGetField ==
    /\ CanNavigate
    /\ \E n \in 1..Len(nodes) :
       \E index \in IndexInputs(nodes[n]), want \in BOOLEAN, oom \in 0..2 :
          CASE nodes[n].kind = "root" ->
                 Navigate("get_field", NodeArgs(nodes[n], index, want, <<>>),
                          fru_node_get_field(recs, index, want, want, oom))
            [] nodes[n].kind = "mr_array" ->
                 \E list \in HandlerLists, cbrv \in {"OK", "EINVAL", "ENOMEM"} :
                    Navigate("get_field",
                             NodeArgs(nodes[n], index, want, list),
                             fru_mr_array_get_field(recs, index, want, oom,
                                                    list, cbrv))
            [] nodes[n].kind = "mr_idx" ->
                 Navigate("get_field", NodeArgs(nodes[n], index, want, <<>>),
                          fru_mr_array_idx_get_field(recs, nodes[n], index,
                                                     want, want, oom))
            [] nodes[n].kind = "array" ->
                 Navigate("get_field", NodeArgs(nodes[n], index, want, <<>>),
                          fru_array_idx_get_field(recs, nodes[n], index, want,
                                                  oom))
            [] OTHER -> FALSE

\* ipmi_fru_put_node by the holder of a node: the node is destroyed and
\* its destructor gives back the FRU reference it holds; the FRU goes
\* with its last reference.
NodePut ==
    /\ phase \in {"loaded", "released"}
    /\ callback = "none"
    /\ \E n \in 1..Len(nodes) :
          /\ nodes' = SubSeq(nodes, 1, n - 1) \o SubSeq(nodes, n + 1, Len(nodes))
          /\ refcount' = refcount - destroy_refs(nodes[n])
          /\ phase' = IF refcount - destroy_refs(nodes[n]) = 0
                      THEN "destroyed" ELSE phase
          /\ call' = NodeArgs(nodes[n], 0, FALSE, <<>>)
    /\ op' = "put_node"
    /\ rv' = "OK"
    /\ out' = NoOut
    /\ UNCHANGED <<data, media, recs, header_changed, is_normal_fru, rec_data,
                   ops_installed, updates, written, lock, nops, fetch_mask,
                   callback, get>>

\* The owner lets go of the FRU (ipmi_fru_deref); the FRU lives on while
\* nodes refer to it.
FruDeref ==
    /\ phase = "loaded"
    /\ callback = "none" /\ ~written
    /\ refcount' = refcount - 1
    /\ phase' = IF refcount - 1 = 0 THEN "destroyed" ELSE "released"
    /\ op' = "fru_deref"
    /\ rv' = "OK"
    /\ call' = NoArgs
    /\ out' = NoOut
    /\ UNCHANGED <<data, media, recs, header_changed, is_normal_fru, rec_data,
                   ops_installed, updates, written, lock, nops, fetch_mask,
                   callback, nodes, get>>

NextNodes ==
    \/ Decode
    \/ FruGetRootNode
    \/ NodeGetField
    \/ NodePut
    \/ FruDeref

SpecNodes == Init /\ [][NextNodes]_vars

(* ------------------------------------------- decoding arbitrary headers *)
(* A second specification for what the decoder and the encoder do with    *)
(* an image as such: the image is drawn from a family of common headers   *)
(* in front of a fixed body, or from a family of board areas with         *)
(* different manufacturing times; it is decoded and written back, with no *)
(* call in between.                                                       *)

\* The offset bytes tried in each header slot: absent, 8, 16, and 48, which
\* is past the end of the image.
HeaderOffsetBytes == {0, 1, 2, 6}

\* The bytes tried for each of the three bytes of the manufacturing time.
TimeBytes == {0, 1, 127, 128, 255}

\* The areas behind the header: a chassis area of 8 bytes at offset 8 and
\* a board area of 16 bytes at offset 16 with the given time bytes.
BodyBytes(t) ==
    WithChecksum(<<1, 1, 23, 192, 192, 193>>, 8)
    \o WithChecksum(<<1, 2, 25>> \o t \o <<192, 192, 192, 192, 192, 193>>, 16)

\* Headers of version 1 and 2, every combination of offset bytes, with
\* the right checksum and with one that is off by one.
HeaderImages ==
    { PadTo(<<v, o[1], o[2], o[3], o[4], o[5], 0,
              (Neg8(v + o[1] + o[2] + o[3] + o[4] + o[5]) + d) % 256>>
            \o BodyBytes(<<1, 0, 0>>), DataLen) :
        v \in {1, 2}, o \in [1..5 -> HeaderOffsetBytes], d \in {0, 1} }

\* A board area at offset 16 with every combination of time bytes.
TimeImages ==
    { PadTo(HeaderBytes(0, 0, 16, 0, 0) \o Zeros(8)
            \o SubSeq(BodyBytes(t), 9, 24), DataLen) :
        t \in [1..3 -> TimeBytes] }

\* The fetch masks tried: every area, and every area but the multi-records.
FetchMasks == {Areas, Areas \ {MULTI_RECORD_AREA}}

InitDecode ==
    /\ data \in HeaderImages \cup TimeImages
    /\ media = data
    /\ recs = [i \in Areas |-> NoRec]
    /\ header_changed = FALSE
    /\ phase = "unloaded"
    /\ is_normal_fru = FALSE
    /\ rec_data = FALSE
    /\ ops_installed = FALSE
    /\ updates = <<>>
    /\ written = FALSE
    /\ op = "none"
    /\ rv = "OK"
    /\ lock = FALSE
    /\ nops = 0
    /\ fetch_mask \in FetchMasks
    /\ callback = "none"
    /\ call = NoArgs
    /\ out = NoOut
    /\ refcount = 1
    /\ nodes = <<>>
    /\ get = NoGet

NextDecode ==
    \/ Decode
    \/ Write

SpecDecode == InitDecode /\ [][NextDecode]_vars

(* -------------------------------------------------------- generic read *)
(* A fifth specification, for ipmi_fru_get called on a string field by     *)
(* one thread while another thread sets strings.  ipmi_fru_get takes no    *)
(* lock itself: it calls the field's type, length and data getters one     *)
(* after the other, and each of them takes and releases the FRU lock       *)
(* (GET_DATA_PREFIX).  Each getter call is one step; a setter, which also  *)
(* runs under the lock, can come between two of them.                      *)

\* The table indexes read: the first and the last F_STR entry of each area.
GetInputs == {4, 5, 10, 14, 18, 24}

\* A getter of ipmi_fru_get may enter: nobody holds the FRU lock.
CanGet == phase = "loaded" /\ ~lock /\ callback = "none"

\* ipmi_fru_get returns r; its locals are gone, `kept` holds what it
\* stored through dtype, data and data_len.
GetReturn(r, kept) ==
    /\ op' = "fru_get"
    /\ rv' = r
    /\ get' = kept
    /\ UNCHANGED phase

\* ipmi_fru_get up to the return of fetch_type.
FruGetType ==
    /\ CanGet /\ get.pc = "idle"
    /\ \E index \in GetInputs :
          LET Done(r) ==
                IF r.rv # "OK" THEN GetReturn(r.rv, NoGet)
                ELSE /\ get' = [NoGet EXCEPT
                                  !.pc = "len", !.index = index,
                                  !.type = r.type,
                                  !.seen = {recs[FrulStrArea(index)]
                                              .strings[FrulStrField(index) + 1]}]
                     /\ UNCHANGED <<op, rv, phase>>
          IN  IF ~recs[FrulStrArea(index)].present
              THEN GetReturn("ENOSYS", NoGet)
              ELSE Done(fru_variable_string_type(recs[FrulStrArea(index)],
                                                 FrulStrField(index)))
    /\ UNCHANGED <<data, media, recs, header_changed, is_normal_fru, rec_data,
                   ops_installed, updates, written, lock, nops, fetch_mask,
                   callback, call, out, refcount, nodes>>

\* From there up to the return of fetch_len and the allocation of dval.
FruGetLen ==
    /\ CanGet /\ get.pc = "len"
    /\ \E oom \in BOOLEAN :
          LET Done(r) ==
                IF r.rv # "OK" THEN GetReturn(r.rv, NoGet)
                ELSE IF oom THEN GetReturn("ENOMEM", NoGet)
                ELSE /\ get' = [get EXCEPT
                                  !.pc = "data", !.len = r.length,
                                  !.seen = @ \cup
                                      {recs[FrulStrArea(get.index)]
                                         .strings[FrulStrField(get.index) + 1]}]
                     /\ UNCHANGED <<op, rv, phase>>
          IN  IF ~recs[FrulStrArea(get.index)].present
              THEN GetReturn("ENOSYS", NoGet)
              ELSE Done(fru_variable_string_length(recs[FrulStrArea(get.index)],
                                                   FrulStrField(get.index)))
    /\ UNCHANGED <<data, media, recs, header_changed, is_normal_fru, rec_data,
                   ops_installed, updates, written, lock, nops, fetch_mask,
                   callback, call, out, refcount, nodes>>

\* From there to the end: fetch_data copies into dval, which holds len
\* bytes.  A write in front of dval either kills the process or goes
\* unnoticed.
FruGetData ==
    /\ CanGet /\ get.pc = "data"
    /\ \E ub \in {"trap", "spill"} :
          LET Done(r) ==
                IF r.rv # "OK" THEN GetReturn(r.rv, NoGet)
                ELSE IF r.first < 0 /\ ub = "trap"
                THEN /\ op' = "fru_get" /\ rv' = "FAULT" /\ get' = NoGet
                     /\ phase' = "crashed"
                ELSE GetReturn("OK", [get EXCEPT !.pc = "idle",
                                                 !.len = r.length,
                                                 !.data = r.data,
                                                 !.seen = {}])
          IN  IF ~recs[FrulStrArea(get.index)].present
              THEN GetReturn("ENOSYS", NoGet)
              ELSE Done(fru_variable_string_to_out(recs[FrulStrArea(get.index)],
                                                   FrulStrField(get.index),
                                                   get.len))
    /\ UNCHANGED <<data, media, recs, header_changed, is_normal_fru, rec_data,
                   ops_installed, updates, written, lock, nops, fetch_mask,
                   callback, call, out, refcount, nodes>>

NextGet ==
    \/ Decode
    \/ SetString
    \/ SetCustom
    \/ FruGetType
    \/ FruGetLen
    \/ FruGetData

SpecGet == Init /\ [][NextGet]_vars

(* --------------------------------------------------------- string reads *)
(* A seventh specification, for the string getters of the info areas: the  *)
(* image is decoded, strings are set, and the fixed strings are read into  *)
(* buffers of several capacities.                                          *)

\* The capacities (*strlen on entry) the string getters are called with:
\* none, one byte, two bytes, and more than any stored string needs.
Capacities == {0, 1, 2, 8}

\* ipmi_fru_get_<area>_<field>(fru, str, strlen), from GET_DATA_STR.  A
\* store in front of the caller's buffer either faults (ub = "trap") or
\* lands in the neighbouring memory (ub = "spill").
GetString ==
    /\ phase = "loaded" /\ ~lock /\ callback = "none"
    /\ \E area \in {CHASSIS_INFO_AREA, BOARD_INFO_AREA, PRODUCT_INFO_AREA} :
       \E idx \in FixedInputs(area), n \in Capacities, ub \in {"trap", "spill"} :
          LET Done(r) ==
                /\ rv' = IF r.rv = "OK" /\ r.first < 0 /\ ub = "trap"
                         THEN "FAULT" ELSE r.rv
                /\ phase' = IF r.rv = "OK" /\ r.first < 0 /\ ub = "trap"
                            THEN "crashed" ELSE phase
                /\ out' = [NoOut EXCEPT !.int = r.length, !.data = r.data]
                /\ call' = [AreaArgs(area, idx, TRUE) EXCEPT !.cap = n]
          IN  IF ~is_normal_fru \/ ~recs[area].present
              THEN Done([rv |-> "ENOSYS", length |-> n, data |-> <<>>,
                         first |-> 0, last |-> -1])
              ELSE Done(fru_variable_string_to_out(recs[area], idx, n))
    /\ op' = "get_string"
    /\ UNCHANGED <<data, media, recs, header_changed, is_normal_fru,
                   rec_data, ops_installed, updates, written, lock, nops,
                   fetch_mask, callback, refcount, nodes, get>>

NextRead ==
    \/ Decode
    \/ SetString
    \/ GetString

SpecRead == Init /\ [][NextRead]_vars

(* ---------------------------------------------------------- long areas *)
(* A sixth specification, for the length an info area decoder takes from   *)
(* header byte 1: the image holds one Chassis, Board or Product area at    *)
(* offset 8 that runs to the end of the image, with empty strings and a    *)
(* length byte from 1 (or 2, where 8 bytes cannot hold the fixed strings)  *)
(* up to MaxLengthByte.  The third byte of the area (chassis type,         *)
(* language code) is chosen so that the first 8 bytes sum to 0 as well as  *)
(* the whole area.                                                         *)

\* The bytes of an empty area behind its first three.
EmptyFields(area) ==
    CASE area = CHASSIS_INFO_AREA -> <<192, 192, 193>>
      [] area = BOARD_INFO_AREA -> <<0, 0, 0, 192, 192, 192, 192, 192, 193>>
      [] OTHER -> <<192, 192, 192, 192, 192, 192, 192, 193>>

LongImage(area, b) ==
    LET rest == EmptyFields(area)
        fix == Neg8(checksum(PadTo(<<1, b, 0>> \o rest, 8), 0, 8))
    IN  HeaderBytes(0, IF area = CHASSIS_INFO_AREA THEN 8 ELSE 0,
                    IF area = BOARD_INFO_AREA THEN 8 ELSE 0,
                    IF area = PRODUCT_INFO_AREA THEN 8 ELSE 0, 0)
        \o WithChecksum(<<1, b, fix>> \o rest, 8 * b)

LongImages ==
    { LongImage(area, b) :
        area \in {CHASSIS_INFO_AREA, BOARD_INFO_AREA, PRODUCT_INFO_AREA},
        b \in 2..MaxLengthByte }
    \cup { LongImage(CHASSIS_INFO_AREA, 1) }

InitLong ==
    /\ data \in LongImages
    /\ media = data
    /\ recs = [i \in Areas |-> NoRec]
    /\ header_changed = FALSE
    /\ phase = "unloaded"
    /\ is_normal_fru = FALSE
    /\ rec_data = FALSE
    /\ ops_installed = FALSE
    /\ updates = <<>>
    /\ written = FALSE
    /\ op = "none"
    /\ rv = "OK"
    /\ lock = FALSE
    /\ nops = 0
    /\ fetch_mask = Areas
    /\ callback = "none"
    /\ call = NoArgs
    /\ out = NoOut
    /\ refcount = 1
    /\ nodes = <<>>
    /\ get = NoGet

NextLong ==
    \/ Decode
    \/ GetAreaInfo

SpecLong == InitLong /\ [][NextLong]_vars

(* ---------------------------------------------------- minimal images *)
(* A fourth specification, for the minimal images of S1Len bytes: a header *)
(* with one offset byte set and one area of 8 bytes at offset 8, decoded,  *)
(* read through the chassis getters, edited and written.                   *)

\* The minimal image with the given Internal Use and Chassis Info offset
\* bytes (header bytes 1 and 2) and the given bytes at the start of the
\* area at offset 8.
MinimalImage(iu, ch, body) ==
    PadTo(<<1, iu, ch, 0, 0, 0, 0, Neg8(1 + iu + ch)>>
          \o WithChecksum(body, 8), S1Len)

\* Version 1, length 8, type 0, then the end marker at once, or after the
\* two fixed strings, both empty.
BodyNoStrings == <<1, 1, 0, 193>>
BodyEmptyStrings == <<1, 1, 0, 192, 192, 193>>

InitMinimal ==
    /\ data \in {MinimalImage(iu, 1 - iu, body) :
                    iu \in {0, 1}, body \in {BodyNoStrings, BodyEmptyStrings}}
    /\ media = data
    /\ recs = [i \in Areas |-> NoRec]
    /\ header_changed = FALSE
    /\ phase = "unloaded"
    /\ is_normal_fru = FALSE
    /\ rec_data = FALSE
    /\ ops_installed = FALSE
    /\ updates = <<>>
    /\ written = FALSE
    /\ op = "none"
    /\ rv = "OK"
    /\ lock = FALSE
    /\ nops = 0
    /\ fetch_mask = Areas
    /\ callback = "none"
    /\ call = NoArgs
    /\ out = NoOut
    /\ refcount = 1
    /\ nodes = <<>>
    /\ get = NoGet

\* ipmi_fru_get_chassis_info_version and ipmi_fru_get_chassis_info_type,
\* named by their frul[] indexes 2 and 3.
GetChassisInfo ==
    /\ phase = "loaded" /\ ~lock /\ callback = "none"
    /\ \E index \in {2, 3} :
          LET Done(r) ==
                /\ rv' = r.rv
                /\ out' = [NoOut EXCEPT !.int = r.out]
                /\ call' = AreaArgs(CHASSIS_INFO_AREA, index, TRUE)
          IN  Done(chassis_info_get(recs, is_normal_fru, index))
    /\ op' = "get_chassis_info"
    /\ UNCHANGED <<data, media, recs, header_changed, phase, is_normal_fru,
                   rec_data, ops_installed, updates, written, lock, nops,
                   fetch_mask, callback, refcount, nodes, get>>

NextMinimal ==
    \/ Decode
    \/ GetChassisInfo
    \/ SetString
    \/ SetCustom
    \/ SetScalar
    \/ Write
    \/ WriteComplete

SpecMinimal == InitMinimal /\ [][NextMinimal]_vars

(* -------------------------------------------------------------- claims *)

\* C1 (minimal-writes soundness): at every successful write, applying the
\* update records of that write to the image last acknowledged by
\* write_complete yields exactly the image just encoded, i.e. every byte that
\* differs lies inside an emitted range.
C1_MinimalWrites ==
    (op = "write" /\ rv = "OK" /\ written)
        => ApplyUpdates(media, data, updates) = data

\* C2 (round-trip fidelity): a write made with no edit since the decode
\* leaves the buffer byte-equal to the decoded image and emits no update
\* record.
C2_RoundTrip ==
    (op = "write" /\ rv = "OK" /\ nops = 0)
        => (data = media /\ updates = <<>>)

\* The part of a multi-record area that C3 lists: the record count, every
\* record's type, length, payload and offset, used_length and changed.
MultiRecordView(rec) ==
    [num_records |-> rec.num_records,
     records |-> [i \in 1..rec.num_records |->
                    [type |-> rec.records[i].type,
                     length |-> rec.records[i].length,
                     data |-> rec.records[i].data,
                     offset |-> rec.records[i].offset]],
     used_length |-> rec.used_length,
     changed |-> rec.changed]

\* C3 (atomic multi-record mutation): a set_multi_record call that returns
\* an error leaves the records, used_length, the changed flag and
\* header_changed as they were before the call.
C3_MultiRecordAtomic ==
    [][(op' = "set_multi_record" /\ rv' # "OK")
         => /\ MultiRecordView(recs'[MULTI_RECORD_AREA])
                 = MultiRecordView(recs[MULTI_RECORD_AREA])
            /\ header_changed' = header_changed]_vars

\* The part of a string area that C4 lists: the entry count, every entry's
\* type, payload, offset, raw length and changed flag, and used_length.
StringsView(rec) ==
    [next |-> rec.next,
     strings |-> [i \in 1..rec.next |->
                    [type |-> rec.strings[i].type,
                     has_str |-> rec.strings[i].has_str,
                     str |-> rec.strings[i].str,
                     offset |-> rec.strings[i].offset,
                     raw_len |-> rec.strings[i].raw_len,
                     changed |-> rec.strings[i].changed]],
     used_length |-> rec.used_length]

\* C4 (out-of-space string set): a fixed or custom string set that returns
\* out-of-space leaves the string array and used_length of every area as
\* they were before the call.
C4_OutOfSpaceUnchanged ==
    [][(op' \in {"set_string", "set_custom"} /\ rv' = "ENOSPC")
         => \A a \in {CHASSIS_INFO_AREA, BOARD_INFO_AREA, PRODUCT_INFO_AREA} :
               recs[a].present => StringsView(recs'[a]) = StringsView(recs[a])]_vars

\* C5 (lock balance): once a call has returned the FRU lock is free,
\* whatever the call returned.
C5_LockBalance == callback = "none" => ~lock

\* C6 (capacity invariant): every present area has used_length <= length,
\* and each present Internal Use, Chassis, Board and Product area has a
\* length that is a multiple of 8 and at least 1, 7, 13, 12 respectively.
C6_Capacity ==
    phase = "loaded" =>
        \A a \in Areas :
            recs[a].present =>
                /\ ~UGt(recs[a].used_length, recs[a].length)
                /\ a # MULTI_RECORD_AREA =>
                      /\ recs[a].length % 8 = 0
                      /\ recs[a].length >= <<1, 7, 13, 12>>[a + 1]

\* C7 (offset monotonicity): after a successful add_area, area_set_offset,
\* area_set_length or delete_area the present areas in kind order have
\* strictly increasing offsets, no area runs into the next one or past the
\* end of the image, and every offset is a nonzero multiple of 8 that is at
\* most min(2040, image length - 8).
C7_OffsetMonotonic ==
    (op \in {"add_area", "area_set_offset", "area_set_length", "delete_area"}
     /\ rv = "OK")
        => \A a \in Areas :
              recs[a].present =>
                /\ recs[a].offset # 0
                /\ recs[a].offset % 8 = 0
                /\ recs[a].offset <= Min(2040, Len(data) - 8)
                /\ recs[a].length >= 0
                /\ recs[a].offset + recs[a].length <= Len(data)
                /\ \A b \in Areas :
                      (b > a /\ recs[b].present) =>
                          /\ recs[a].offset < recs[b].offset
                          /\ recs[a].offset + recs[a].length <= recs[b].offset

\* C8 (string array offset consistency): in every Chassis, Board and
\* Product area the first string starts at the field start (3, 6, 3), each
\* later string starts where the one before it ends, and the last string
\* ends at used_length - 2, where the end marker sits.
C8_OffsetConsistency ==
    \A a \in {CHASSIS_INFO_AREA, BOARD_INFO_AREA, PRODUCT_INFO_AREA} :
        (recs[a].present /\ recs[a].next > 0) =>
            /\ recs[a].strings[1].offset = <<3, 6, 3>>[a]
            /\ \A i \in 1..(recs[a].next - 1) :
                  recs[a].strings[i + 1].offset
                      = recs[a].strings[i].offset + recs[a].strings[i].raw_len
            /\ recs[a].strings[recs[a].next].offset
                  + recs[a].strings[recs[a].next].raw_len
                      = recs[a].used_length - 2

\* A string setter has succeeded on an area that holds a custom string
\* after its fixed ones, with a string of more than one raw byte before it.
C8_Witness ==
    /\ op \in {"set_string", "set_custom"}
    /\ rv = "OK"
    /\ \E a \in {CHASSIS_INFO_AREA, BOARD_INFO_AREA, PRODUCT_INFO_AREA} :
          /\ recs[a].present
          /\ recs[a].next > num_fixed_fields(a)
          /\ recs[a].changed
          /\ recs[a].strings[1].raw_len > 1

\* C9 (checksum closure): after a successful write the bytes of every
\* present Chassis, Board and Product area sum to 0 mod 256, and so do
\* header bytes 0..7, with byte 0 equal to 1 and byte 6 equal to 0.
C9_ChecksumClosure ==
    (op = "write" /\ rv = "OK") =>
        /\ SumBytes(data, 0, 8) % 256 = 0
        /\ data[1] = 1
        /\ data[7] = 0
        /\ \A a \in {CHASSIS_INFO_AREA, BOARD_INFO_AREA, PRODUCT_INFO_AREA} :
              recs[a].present =>
                  SumBytes(data, recs[a].offset, recs[a].length) % 256 = 0

\* A write has succeeded after an edit that changed a Chassis, Board or
\* Product area, so its checksum byte had to be recomputed.
C9_Witness ==
    /\ op = "write"
    /\ rv = "OK"
    /\ nops > 0
    /\ data # media
    /\ \E a \in {CHASSIS_INFO_AREA, BOARD_INFO_AREA, PRODUCT_INFO_AREA} :
          recs[a].present /\ recs[a].changed /\ recs[a].length > 0

\* C10 (no ranges after an acknowledged write): a write that directly
\* follows write_complete, with no edit in between, emits no update record.
C10_NoRangesAfterAck ==
    [][(op = "write_complete" /\ op' = "write" /\ rv' = "OK")
         => updates' = <<>>]_vars

\* C11 (write_complete clears all dirty state): after write_complete every
\* present area has changed and rewrite cleared and orig_used_length equal
\* to used_length, and no string of a Chassis, Board or Product area is
\* marked changed.
C11_AckClearsDirty ==
    op = "write_complete" =>
        \A a \in Areas :
            recs[a].present =>
                /\ ~recs[a].changed
                /\ ~recs[a].rewrite
                /\ recs[a].orig_used_length = recs[a].used_length
                /\ has_get_fields(a) =>
                      \A i \in 1..recs[a].next : ~recs[a].strings[i].changed

\* C12 as stated (header flagged on layout change): every successful
\* add_area, move to a different offset and resize to a different length
\* sets header_changed, and a successful write made while the flag is set
\* emits the range (0, 8) first.
C12_HeaderFlaggedOnLayoutChange ==
    [][/\ (op' \in {"add_area", "area_set_offset", "area_set_length"}
            /\ rv' = "OK" /\ recs' # recs) => header_changed'
       /\ (op' = "write" /\ rv' = "OK" /\ header_changed)
             => (Len(updates') > 0 /\ updates'[1] = <<0, 8>>)]_vars

\* C12 as the code has it: a successful add_area or move to a different
\* offset sets header_changed, a resize leaves the flag as it was (the
\* header holds offsets only), and a successful write made while the flag
\* is set emits the range (0, 8) first.
C12_HeaderFlaggedOnAddAndMove ==
    [][/\ (op' \in {"add_area", "area_set_offset"}
            /\ rv' = "OK" /\ recs' # recs) => header_changed'
       /\ (op' = "area_set_length") => (header_changed' = header_changed)
       /\ (op' = "write" /\ rv' = "OK" /\ header_changed)
             => (Len(updates') > 0 /\ updates'[1] = <<0, 8>>)]_vars

\* The first call after the decode was a move that succeeded and took the
\* area to a new offset, and the header is flagged.
C12_Witness ==
    /\ op = "area_set_offset"
    /\ rv = "OK"
    /\ nops = 1
    /\ header_changed
    /\ \E a \in Areas : recs[a].present /\ recs[a].rewrite

\* C13 (no user callback under the FRU lock): while the get_root callback
\* of an OEM multi-record decoder runs, the FRU lock taken by the calling
\* entry point is not held.
C13_NoCallbackUnderLock == callback = "oem" => ~lock

\* C14 (deletion reflow): a successful delete of an existing custom string
\* takes exactly that entry out, lowers used_length by its raw length and
\* the offset of every following string by the same amount and marks them
\* changed; a successful delete of a multi-record lowers used_length by 5
\* plus its payload length and the offset of every following record by the
\* same amount; the entries before the deleted one are unchanged.
C14_DeletionReflow ==
    [][/\ (op' = "set_custom" /\ rv' = "OK" /\ ~call'.given) =>
             \A a \in {CHASSIS_INFO_AREA, BOARD_INFO_AREA, PRODUCT_INFO_AREA} :
                (recs'[a] # recs[a]
                 /\ call'.num < recs[a].next - num_fixed_fields(a)) =>
                    LET i == call'.num + num_fixed_fields(a) + 1
                        gone == recs[a].strings[i].raw_len
                    IN  /\ recs'[a].next = recs[a].next - 1
                        /\ recs'[a].used_length = recs[a].used_length - gone
                        /\ \A k \in 1..(i - 1) :
                              recs'[a].strings[k] = recs[a].strings[k]
                        /\ \A k \in i..recs'[a].next :
                              recs'[a].strings[k]
                                = [recs[a].strings[k + 1] EXCEPT
                                      !.offset = @ - gone, !.changed = TRUE]
       /\ (op' = "set_multi_record" /\ rv' = "OK" /\ ~call'.given) =>
             LET old == recs[MULTI_RECORD_AREA]
                 new == recs'[MULTI_RECORD_AREA]
                 i == call'.num + 1
                 gone == 5 + old.records[i].length
             IN  /\ new.num_records = old.num_records - 1
                 /\ new.used_length = old.used_length - gone
                 /\ \A k \in 1..(i - 1) : new.records[k] = old.records[k]
                 /\ \A k \in i..new.num_records :
                       new.records[k]
                         = [old.records[k + 1] EXCEPT
                               !.offset = @ - gone, !.changed = TRUE]]_vars

\* The first of two multi-records has just been deleted: the area, decoded
\* with 14 bytes in use, now uses 9 bytes and holds one record, which has
\* moved to the front.
C14_Witness ==
    /\ op = "set_multi_record"
    /\ rv = "OK"
    /\ ~call.given
    /\ call.num = 0
    /\ recs[MULTI_RECORD_AREA].num_records = 1
    /\ recs[MULTI_RECORD_AREA].used_length < recs[MULTI_RECORD_AREA].orig_used_length
    /\ recs[MULTI_RECORD_AREA].records[1].offset = 0
    /\ recs[MULTI_RECORD_AREA].records[1].changed

\* C15 (update-range ordering): in the list one successful write emits, the
\* header range (0, 8) can only come first and the byte offsets of the
\* ranges never decrease: areas come in kind order, which is offset order,
\* and within an area the ranges run from its header to its checksum.
C15_RangesOrdered ==
    (op = "write" /\ rv = "OK") =>
        /\ \A i \in 2..Len(updates) : updates[i] # <<0, 8>>
        /\ \A i \in 1..(Len(updates) - 1) : updates[i][1] <= updates[i + 1][1]

\* C16 (failed decode leaves no FRU state): after a decode that returned
\* an error the FRU has no record data and no area record, is not flagged
\* as a normal FRU, and has no normal-FRU handler installed.
C16_FailedDecodeClean ==
    phase = "failed" =>
        /\ ~rec_data
        /\ \A a \in Areas : ~recs[a].present
        /\ ~is_normal_fru
        /\ ~ops_installed

\* The header faults C17 lists: bytes 0..7 do not sum to 0 mod 256, byte 0
\* is not 1, a fetched area offset is at or past the end of the image, or
\* the nonzero fetched offsets do not strictly increase in kind order.
HeaderFault(buf, mask) ==
    LET off == [i \in Areas |-> IF i \in mask THEN buf[i + 2] * 8 ELSE 0]
    IN  \/ SumBytes(buf, 0, 8) % 256 # 0
        \/ buf[1] # 1
        \/ \E i \in Areas : off[i] >= Len(buf)
        \/ \E i, j \in Areas :
              i < j /\ off[i] # 0 /\ off[j] # 0 /\ off[i] >= off[j]

\* Some fetched area of a faultless header does not decode: the area is
\* handed the bytes up to the next fetched area, or to the end of the image.
AreaFault(buf, mask) ==
    LET off == [i \in Areas |-> IF i \in mask THEN buf[i + 2] * 8 ELSE 0]
    IN  \E a \in Areas :
          /\ off[a] # 0
          /\ LET later == {off[k] : k \in {j \in Areas : j > a /\ off[j] # 0}}
                  next_off == IF later = {} THEN Len(buf)
                              ELSE CHOOSE x \in later : \A y \in later : x <= y
              IN  area_decode(a, buf, off[a], next_off - off[a]).err # "OK"

\* C17 (header format errors): a decode of an image with one of the listed
\* header faults fails with the bad-format error and creates no area
\* record; a decode of an image without them fails only when memory runs
\* out or an area does not decode.
C17_HeaderErrors ==
    op = "decode" =>
        /\ HeaderFault(data, fetch_mask) =>
              /\ rv = "EBADF"
              /\ ~rec_data
              /\ \A a \in Areas : ~recs[a].present
        /\ (~HeaderFault(data, fetch_mask) /\ rv \notin {"OK", "ENOMEM"}) =>
              AreaFault(data, fetch_mask)

\* A decode has rejected a header whose checksum and version are right and
\* whose offsets are all inside the image, but out of order.
C17_Witness ==
    /\ op = "decode"
    /\ rv = "EBADF"
    /\ SumBytes(data, 0, 8) % 256 = 0
    /\ data[1] = 1
    /\ \A i \in Areas : data[i + 2] * 8 < Len(data)
    /\ HeaderFault(data, fetch_mask)

\* C19 (timestamp round trip): when a decoded image is written back, the
\* board manufacturing time held in between is m*60 + 820476000 for the
\* minute count m in the three little-endian time bytes of the image, and
\* the write stores the same three bytes again.
C19_TimeRoundTrip ==
    (op = "write" /\ rv = "OK" /\ nops = 0 /\ recs[BOARD_INFO_AREA].present) =>
        LET o == recs[BOARD_INFO_AREA].offset + 3
            m == media[o + 1] + media[o + 2] * 256 + media[o + 3] * 65536
        IN  /\ recs[BOARD_INFO_AREA].mfg_time = m * 60 + 820476000
            /\ Slice(data, o, 3) = Slice(media, o, 3)

\* A board area whose three time bytes differ from each other and give a
\* minute count above 2^23 has been decoded and written back.
C19_Witness ==
    /\ op = "write"
    /\ rv = "OK"
    /\ nops = 0
    /\ recs[BOARD_INFO_AREA].present
    /\ Slice(media, recs[BOARD_INFO_AREA].offset + 3, 3) = <<127, 1, 255>>

\* C18 (timestamp overflow is rejected): a call that sets the board
\* manufacturing time to a time whose minute count does not fit in 24 bits
\* returns the invalid-value error and leaves the records as they were,
\* and the three time bytes a successful write stores give back the time
\* held in the board record.
C18_TimeOverflowRejected ==
    [][/\ (op' = "set_scalar" /\ call'.given /\ recs[BOARD_INFO_AREA].present
            /\ (UNIX_TIME_TO_FRU_TIME(call'.num) < 0
                \/ UNIX_TIME_TO_FRU_TIME(call'.num) >= 16777216))
             => (rv' = "EINVAL" /\ recs' = recs)
       /\ (op' = "write" /\ rv' = "OK" /\ recs'[BOARD_INFO_AREA].present)
             => read_fru_time(data', recs'[BOARD_INFO_AREA].offset + 3)
                  = recs'[BOARD_INFO_AREA].mfg_time]_vars

\* C20 as stated (multi-record index bounds): a set_multi_record call with
\* a payload appends only when the index equals num_records; with an index
\* greater than num_records it returns the invalid-argument error and
\* changes nothing.
C20_IndexPastEndRejected ==
    [][(op' = "set_multi_record" /\ call'.given
        /\ recs[MULTI_RECORD_AREA].present) =>
          LET old == recs[MULTI_RECORD_AREA]
              new == recs'[MULTI_RECORD_AREA]
          IN  /\ (rv' = "OK" /\ new.num_records = old.num_records + 1)
                    => call'.num = old.num_records
              /\ call'.num > old.num_records
                    => /\ rv' = "EINVAL"
                       /\ recs' = recs
                       /\ header_changed' = header_changed]_vars

\* C20 as the code has it: a set_multi_record call with a payload and an
\* index at or past num_records never returns the invalid-argument error;
\* when it succeeds it has appended one record at index num_records, at
\* the old used_length, and left the records before it as they were.  With
\* an index below num_records a successful call keeps the record count.  A
\* call without payload at or past num_records returns the
\* invalid-argument error and changes nothing.
C20_IndexPastEndAppends ==
    [][(op' = "set_multi_record" /\ recs[MULTI_RECORD_AREA].present) =>
          LET old == recs[MULTI_RECORD_AREA]
              new == recs'[MULTI_RECORD_AREA]
              n == old.num_records
          IN  /\ (call'.given /\ call'.num >= n) =>
                    /\ rv' # "EINVAL"
                    /\ rv' = "OK" =>
                          /\ new.num_records = n + 1
                          /\ new.records[n + 1].has_data
                          /\ new.records[n + 1].offset = old.used_length
                          /\ new.used_length
                                = old.used_length + 5 + new.records[n + 1].length
                          /\ \A k \in 1..n : new.records[k] = old.records[k]
              /\ (call'.given /\ call'.num < n /\ rv' = "OK")
                    => new.num_records = n
              /\ (~call'.given /\ call'.num >= n) =>
                    /\ rv' = "EINVAL"
                    /\ recs' = recs
                    /\ header_changed' = header_changed]_vars

\* A call with a payload and index 5 has succeeded on an area that now
\* holds three records, so the index was past the two it held before; the
\* new record sits behind them.
C20_Witness ==
    /\ op = "set_multi_record"
    /\ rv = "OK"
    /\ call.given
    /\ call.num = 5
    /\ recs[MULTI_RECORD_AREA].num_records = 3
    /\ recs[MULTI_RECORD_AREA].records[3].has_data
    /\ recs[MULTI_RECORD_AREA].records[3].offset > 0

\* C21 as stated (an empty multi-record list keeps its header entry): when
\* the last multi-record has just been deleted, the next write stores the
\* multi-record area's offset / 8 in header byte 5, not 0.
C21_EmptyListKeepsEntry ==
    [][(/\ op = "set_multi_record" /\ rv = "OK" /\ ~call.given
        /\ recs[MULTI_RECORD_AREA].num_records = 0
        /\ op' = "write" /\ rv' = "OK")
         => data'[6] = (recs[MULTI_RECORD_AREA].offset \div 8) % 256]_vars

\* C21 as the code has it: the delete that empties the list of a
\* multi-record area sets header_changed, and the next write emits the
\* header range (0, 8) first and, the area having no byte in use any more,
\* stores 0 in header byte 5 although the area record is still there.
C21_EmptyListClearsEntry ==
    [][/\ (/\ op' = "set_multi_record" /\ rv' = "OK" /\ ~call'.given
           /\ recs'[MULTI_RECORD_AREA].num_records = 0) => header_changed'
       /\ (/\ op = "set_multi_record" /\ rv = "OK" /\ ~call.given
           /\ recs[MULTI_RECORD_AREA].num_records = 0
           /\ op' = "write" /\ rv' = "OK")
            => /\ recs'[MULTI_RECORD_AREA].present
               /\ Len(updates') > 0 /\ updates'[1] = <<0, 8>>
               /\ recs[MULTI_RECORD_AREA].used_length = 0 => data'[6] = 0]_vars

\* A write has followed the delete of the only multi-record: the area
\* record is still there with nothing in use, the device image still has
\* its header entry, and the buffer just encoded has 0 there.
C21_Witness ==
    /\ op = "write"
    /\ rv = "OK"
    /\ nops > 0
    /\ recs[MULTI_RECORD_AREA].present
    /\ recs[MULTI_RECORD_AREA].num_records = 0
    /\ recs[MULTI_RECORD_AREA].used_length = 0
    /\ recs[MULTI_RECORD_AREA].orig_used_length > 0
    /\ media[6] # 0
    /\ data[6] = 0
    /\ Len(updates) > 0 /\ updates[1] = <<0, 8>>

\* C22 (delete at an invalid index is an error): a custom-string setter
\* called without a string and with an ordinal at or past the number of
\* custom strings, whatever its len argument, and a set_multi_record called
\* without a payload and with an index at or past num_records, both return
\* the invalid-argument error and leave the strings, the records,
\* used_length and the area's changed flag as they were.
C22_InvalidDeleteRejected ==
    [][/\ (/\ op' = "set_custom" /\ ~call'.given
           /\ recs[call'.area].present
           /\ call'.num >= recs[call'.area].next
                             - num_fixed_fields(call'.area))
            => /\ rv' = "EINVAL"
               /\ StringsView(recs'[call'.area]) = StringsView(recs[call'.area])
               /\ recs'[call'.area].changed = recs[call'.area].changed
       /\ (/\ op' = "set_multi_record" /\ ~call'.given
           /\ recs[MULTI_RECORD_AREA].present
           /\ call'.num >= recs[MULTI_RECORD_AREA].num_records)
            => /\ rv' = "EINVAL"
               /\ MultiRecordView(recs'[MULTI_RECORD_AREA])
                    = MultiRecordView(recs[MULTI_RECORD_AREA])
               /\ header_changed' = header_changed]_vars

\* C23 (unknown area id is rejected): add_area, delete_area,
\* set_area_offset, set_area_length and the area offset, length and
\* used_length getters, called with an area id outside 0..4 (negative ids
\* included), return the invalid-argument error and leave every area
\* record, the header flag and the process as they were.
C23_UnknownAreaRejected ==
    [][(/\ op' \in {"add_area", "delete_area", "area_set_offset",
                    "area_set_length", "area_get"}
        /\ call'.num \notin Areas)
         => /\ rv' = "EINVAL"
            /\ recs' = recs
            /\ header_changed' = header_changed
            /\ phase' = phase]_vars

\* The references the live nodes and the owner account for.
HeldRefs ==
    Cardinality({n \in 1..Len(nodes) : nodes[n].kind # "decoder"})
    + (IF phase \in {"released", "destroyed"} THEN 0 ELSE 1)

\* C24 (reference counting of navigation nodes): every node made by the
\* root accessor, the custom-array accessor, the multirecords accessor and
\* the wrapper accessor takes one reference on the FRU and its destruction
\* releases one, so the count is the owner's reference plus one for each
\* such node alive and is not zero while one is alive; and a call of those
\* accessors that fails leaves the count as it found it.
C24_NodeRefCounting ==
    [][/\ refcount' = HeldRefs'
       /\ (Len(nodes') > 0 /\ \E n \in 1..Len(nodes') : nodes'[n].kind # "decoder")
             => (refcount' > 0 /\ phase' # "destroyed")
       /\ (op' \in {"get_root", "get_field"} /\ rv' # "OK")
             => refcount' = refcount]_vars

\* No registered decoder serves multi-record `num` under decoder list
\* `list`: its payload is shorter than 3 bytes or no entry matches it.
NoDecoderFor(num, list) ==
    LET elem == recs[MULTI_RECORD_AREA].records[num + 1]
    IN  \/ elem.length < 3
        \/ FirstMatch(list, elem.type,
                      elem.data[1] + elem.data[2] * 256 + elem.data[3] * 65536)
             = 0

\* C25 (multi-record wrapper without a decoder): get_field on the
\* multi-record-array node at an index below the number of records, asked
\* for the sub-node and not out of memory, succeeds with a wrapper of that
\* record when no registered decoder serves the record, and that wrapper
\* has no decoder child; get_field on a wrapper returns the raw payload as
\* child 0 and fails for child 1 when the wrapper has no decoder child.
C25_WrapperWithoutDecoder ==
    [][/\ (/\ op' = "get_field" /\ call'.node.kind = "mr_array"
           /\ call'.given /\ rv' # "ENOMEM"
           /\ recs[MULTI_RECORD_AREA].present
           /\ call'.num < recs[MULTI_RECORD_AREA].num_records
           /\ NoDecoderFor(call'.num, call'.list))
            => /\ rv' = "OK"
               /\ out'.node = FruNode("mr_idx", call'.num, FALSE)
       /\ (/\ op' = "get_field" /\ call'.node.kind = "mr_idx"
           /\ call'.given /\ rv' # "ENOMEM"
           /\ recs[MULTI_RECORD_AREA].present
           /\ call'.node.index < recs[MULTI_RECORD_AREA].num_records)
            => LET elem == recs[MULTI_RECORD_AREA].records[call'.node.index + 1]
               IN  /\ call'.num = 0
                     => /\ rv' = "OK"
                        /\ out'.data = Take(elem.data, elem.length)
                        /\ out'.int = elem.length
                   /\ (call'.num = 1 /\ ~call'.node.mr_node)
                     => /\ rv' # "OK"
                        /\ out'.node = NoNode]_vars

\* The entries of decoder list `list` that pass the lookup test for record
\* type `type` and manufacturer id `manufacturer_id`.
PassingEntries(list, type, manufacturer_id) ==
    {i \in 1..Len(list) :
        /\ list[i].record_type_id = type
        /\ (type < 192 \/ list[i].manufacturer_id = manufacturer_id)}

\* C26 (OEM registry lookup rule): a lookup for an existing multi-record of
\* type T whose payload bytes 0..2 give the little-endian manufacturer id M
\* calls the first registered entry that passes the test (same type, and
\* T < 0xC0 or same manufacturer id) and no other; it returns an error
\* without calling a decoder when no entry passes the test or when the
\* payload is shorter than 3 bytes.
C26_LookupRule ==
    [][(/\ op' = "get_root_node" /\ callback = "none"
        /\ recs[MULTI_RECORD_AREA].present
        /\ call'.num < recs[MULTI_RECORD_AREA].num_records)
         => LET elem == recs[MULTI_RECORD_AREA].records[call'.num + 1]
                Rule(pass) ==
                    IF elem.length >= 3 /\ pass # {}
                    THEN /\ rv' = "CALL"
                         /\ call'.handler \in pass
                         /\ \A j \in pass : call'.handler <= j
                         /\ callback' # "none"
                    ELSE /\ rv' \notin {"OK", "CALL"}
                         /\ call'.handler = 0
                         /\ callback' = "none"
            IN  Rule(IF elem.length < 3 THEN {}
                     ELSE PassingEntries(call'.list, elem.type,
                                         elem.data[1] + elem.data[2] * 256
                                         + elem.data[3] * 65536))]_vars

\* What C27 says a custom append followed by the delete restores: the entry
\* count, used_length and every entry without its changed flag.
EntriesOf(rec) ==
    [next |-> rec.next,
     used_length |-> rec.used_length,
     strings |-> [i \in 1..rec.next |-> [rec.strings[i] EXCEPT !.changed = FALSE]]]

\* C27 (append then delete is the identity on the image): after a custom
\* setter call has appended a string to a Chassis, Board or Product area,
\* deleting the custom string at the ordinal it was appended at succeeds and
\* restores the entry count, used_length and every remaining entry's offset,
\* raw length and content, and the next write then produces the buffer that
\* a write before the append would have produced.
C27_AppendThenDelete ==
    [][(/\ op' = "set_custom" /\ rv' = "OK" /\ call'.given
        /\ call'.area \in {CHASSIS_INFO_AREA, BOARD_INFO_AREA, PRODUCT_INFO_AREA}
        /\ recs[call'.area].present
        /\ recs'[call'.area].next = recs[call'.area].next + 1)
         => LET a == call'.area
                Restored(del) ==
                    /\ del.rv = "OK"
                    /\ EntriesOf(del.rec) = EntriesOf(recs[a])
                    /\ \A ub \in {"trap", "spill"} :
                          LET before == fru_write(data, recs, header_changed, ub)
                              after == fru_write(data,
                                                 [recs' EXCEPT ![a] = del.rec],
                                                 header_changed', ub)
                          IN  /\ after.rv = before.rv
                              /\ after.buf = before.buf
            IN  Restored(fru_variable_string_set(
                             recs'[a], num_fixed_fields(a),
                             recs[a].next - num_fixed_fields(a),
                             "ASCII", FALSE, <<>>, 0, TRUE, 0))]_vars

\* A custom string was appended and the delete of it has something to undo.
C27_Witness ==
    /\ op = "set_custom" /\ rv = "OK" /\ call.given
    /\ call.area = CHASSIS_INFO_AREA
    /\ recs[CHASSIS_INFO_AREA].present
    /\ recs[CHASSIS_INFO_AREA].next = num_fixed_fields(CHASSIS_INFO_AREA) + 1
    /\ recs[CHASSIS_INFO_AREA].strings[recs[CHASSIS_INFO_AREA].next].raw_len > 1
    /\ nops = 1

\* C28 (ranges emitted for a string edit): a successful set of a fixed
\* string in an area with no rewrite pending changes used_length by the
\* new raw length minus the old one, and the next write succeeds and emits
\* the range (area offset + string offset, new raw length) of that string,
\* the range of every following string if the offsets shifted, one byte at
\* the terminator and one byte at area offset + length - 1.
C28_StringEditRanges ==
    [][(/\ op' = "set_string" /\ rv' = "OK"
        /\ call'.area \in {CHASSIS_INFO_AREA, BOARD_INFO_AREA, PRODUCT_INFO_AREA}
        /\ recs[call'.area].present
        /\ ~recs'[call'.area].rewrite)
         => LET rec == recs'[call'.area]
                idx == call'.num
                diff == rec.strings[idx + 1].raw_len
                        - recs[call'.area].strings[idx + 1].raw_len
                RangeOf(i) == <<rec.offset + rec.strings[i].offset,
                                rec.strings[i].raw_len>>
                Emitted(w) ==
                    LET ups == {w.ups[k] : k \in 1..Len(w.ups)}
                    IN  /\ w.rv = "OK"
                        /\ RangeOf(idx + 1) \in ups
                        /\ diff # 0 => \A i \in (idx + 2)..rec.next : RangeOf(i) \in ups
                        /\ <<rec.offset + rec.used_length - 2, 1>> \in ups
                        /\ <<rec.offset + rec.length - 1, 1>> \in ups
            IN  /\ rec.used_length - recs[call'.area].used_length = diff
                /\ \A ub \in {"trap", "spill"} :
                      Emitted(fru_write(data, recs', header_changed', ub))]_vars

\* What C29 expects of the decode of `image` and of the chassis getters
\* called after it: the decode, unless it runs out of memory, succeeds
\* with a Chassis Info area at offset 8 and no other area, the version
\* getter gives 1 and the type getter 0.
DecodesToChassis(image) ==
    (media = image /\ nops' = 0)
         => /\ (op' = "decode" /\ rv' # "ENOMEM")
              => /\ rv' = "OK"
                 /\ phase' = "loaded"
                 /\ recs'[CHASSIS_INFO_AREA].present
                 /\ recs'[CHASSIS_INFO_AREA].offset = 8
                 /\ \A a \in Areas \ {CHASSIS_INFO_AREA} : ~recs'[a].present
            /\ op' = "get_chassis_info"
              => /\ rv' = "OK"
                 /\ out'.int = IF call'.num = 2 THEN 1 ELSE 0

C30_FixedStringsPresent ==
    [][/\ \A a \in {CHASSIS_INFO_AREA, BOARD_INFO_AREA, PRODUCT_INFO_AREA} :
            recs'[a].present => recs'[a].next >= num_fixed_fields(a)
       /\ op' = "set_custom"
            => \A a \in {CHASSIS_INFO_AREA, BOARD_INFO_AREA, PRODUCT_INFO_AREA} :
                  /\ recs'[a].present = recs[a].present
                  /\ recs[a].present
                       => \A i \in 1..num_fixed_fields(a) :
                             recs'[a].strings[i] = recs[a].strings[i]
       /\ (op' = "set_string" /\ rv' = "OK" /\ ~call'.given)
            => LET rec == recs'[call'.area]
                   s == rec.strings[call'.num + 1]
               IN  /\ rec.next = recs[call'.area].next
                   /\ s.raw_len = 1
                   /\ EncodedString(s) = <<192>>]_vars

\* A custom setter called with the largest ordinal has appended a string
\* behind the fixed entries of a Product area.
C30_Witness ==
    /\ op = "set_custom" /\ rv = "OK" /\ call.given
    /\ call.num = 2147483647
    /\ call.area = PRODUCT_INFO_AREA
    /\ recs[PRODUCT_INFO_AREA].present
    /\ recs[PRODUCT_INFO_AREA].next > num_fixed_fields(PRODUCT_INFO_AREA)

\* The area records with every area but a taken away.
OnlyArea(rs, a) == [i \in Areas |-> IF i = a THEN rs[i] ELSE NoRec]

\* What the area loop of fru_write emits for area a alone.
AreaRanges(buf, rs, a, ub) ==
    WriteAreas([buf |-> buf, ups |-> <<>>, rv |-> "OK", ub |-> ub],
               OnlyArea(rs, a), 0)

\* The rule of C31 for the areas in S: a successful write emits for an area
\* with rewrite set one range, (offset, length), and no other.
WholeAreaRewrite(S) ==
    (op' = "write" /\ rv' = "OK")
        => \A a \in S :
              (recs[a].present /\ recs[a].rewrite)
                  => /\ \E k \in 1..Len(updates') :
                           updates'[k] = <<recs[a].offset, recs[a].length>>
                     /\ \A ub \in {"trap", "spill"} :
                           AreaRanges(data, recs, a, ub).rv = "OK"
                               => AreaRanges(data, recs, a, ub).ups
                                     = << <<recs[a].offset, recs[a].length>> >>

\* C31 (whole-area rewrite): for every area with rewrite set, a successful
\* write emits none of the fine-grained ranges of that area and exactly one
\* range, which covers the area's whole reserved region (offset, length).
C31_WholeAreaRewrite == [][WholeAreaRewrite(Areas)]_vars

\* C32 (zeroed tail): after a successful write, in every present Chassis,
\* Board and Product area every byte strictly between the terminator (at
\* area offset + used_length - 2) and the checksum byte (at area offset +
\* length - 1) is zero.
C32_ZeroedTail ==
    (op = "write" /\ rv = "OK")
        => \A a \in {CHASSIS_INFO_AREA, BOARD_INFO_AREA, PRODUCT_INFO_AREA} :
              recs[a].present
                  => \A o \in (recs[a].offset + recs[a].used_length - 1)
                               .. (recs[a].offset + recs[a].length - 2) :
                        (o >= 0 /\ o < Len(data)) => data[o + 1] = 0

\* C33 (strings are bounded by the declared area length on decode): every
\* Chassis, Board or Product area of a successfully decoded image has
\* used_length <= length; an area whose strings and terminator do not fit
\* inside its declared length makes the decode fail with EBADF.
C33_StringsWithinDeclaredLength ==
    (op = "decode" /\ rv = "OK")
        => \A a \in {CHASSIS_INFO_AREA, BOARD_INFO_AREA, PRODUCT_INFO_AREA} :
              recs[a].present => recs[a].used_length <= recs[a].length

\* The bytes of the image at pos are record i of rec and the records after
\* it: type, version nibble 2, the end-of-list bit on the last record only,
\* the length, a payload checksum and a header checksum that make the
\* payload plus its checksum and the five header bytes sum to 0 mod 256,
\* then the payload, and the next record right behind it.
RECURSIVE ChainAt(_, _, _, _)
ChainAt(buf, rec, i, pos) ==
    IF i >= rec.num_records THEN TRUE
    ELSE
    LET elem == rec.records[i + 1]
    IN  /\ pos + 5 + elem.length <= Len(buf)
        /\ buf[pos + 1] = elem.type
        /\ buf[pos + 2] % 16 = 2
        /\ (buf[pos + 2] \div 128 = 1) <=> (i + 1 = rec.num_records)
        /\ buf[pos + 3] = elem.length
        /\ (buf[pos + 4] + SumBytes(buf, pos + 5, elem.length)) % 256 = 0
        /\ SumBytes(buf, pos, 5) % 256 = 0
        /\ Slice(buf, pos + 5, elem.length) = Take(elem.data, elem.length)
        /\ ChainAt(buf, rec, i + 1, pos + 5 + elem.length)

\* A write of the records rs with header flag hc succeeds and stores a
\* well-formed chain, when rs holds at least one multi-record.
WritesChain(buf, rs, hc) ==
    \A ub \in {"trap", "spill"} :
        LET Done(es) ==
              /\ es.rv = "OK"
              /\ ChainAt(es.buf, rs[MULTI_RECORD_AREA], 0,
                         rs[MULTI_RECORD_AREA].offset)
        IN  rs[MULTI_RECORD_AREA].num_records >= 1
                => Done(fru_write(buf, rs, hc, ub))

\* The edit calls made since the decode, if any, were successful
\* multi-record edits.
OnlyRecordEditsYet ==
    \/ nops = 0
    \/ nops = 1 /\ rv = "OK" /\ op = "set_multi_record"

\* C34 (multi-record chain well-formedness on write): after successful
\* append, replace and delete operations that leave at least one record, a
\* write stores the records contiguously from the area start in index
\* order, each with a 5-byte header summing to 0, a payload checksum that
\* is the two's complement of the payload sum, version nibble 2, and the
\* end-of-list bit 0x80 on the last record and on no other.  Checked for
\* the write that follows a successful set_multi_record, and for the write
\* that follows one more successful set_multi_record after it.
C34_RecordChain ==
    [][(op' = "set_multi_record" /\ rv' = "OK" /\ OnlyRecordEditsYet)
        => /\ WritesChain(data, recs', header_changed')
           /\ \A num \in RecordNums, d \in RecordInputs :
                 LET Then(r) ==
                       r.rv = "OK"
                         => WritesChain(data,
                                [recs' EXCEPT ![MULTI_RECORD_AREA] = r.rec],
                                r.header_changed)
                 IN  Then(set_multi_record(recs'[MULTI_RECORD_AREA],
                                           header_changed', num, 3, 2,
                                           d.has_data, d.dat, d.length, 0))]_vars

\* A successful append has left two records, after a decode and at most one
\* other multi-record edit.
C34_Witness ==
    /\ op = "set_multi_record" /\ rv = "OK" /\ call.given
    /\ nops >= 1
    /\ recs[MULTI_RECORD_AREA].present
    /\ recs[MULTI_RECORD_AREA].changed
    /\ recs[MULTI_RECORD_AREA].num_records >= 2

\* What ipmi_fru_get returns for a field that holds s throughout the call.
ReadOf(s) ==
    LET Kept(r) == [type |-> s.type, len |-> r.length, data |-> r.data]
    IN  Kept(fru_string_to_out(s, IF s.type = "ASCII" THEN s.length + 1
                                  ELSE s.length))

\* C35 (atomic generic read): the type, the length and the data that one
\* successful ipmi_fru_get call on a string field returns all come from
\* one and the same state of the field, one it had at some getter call of
\* this ipmi_fru_get, also when a setter has run meanwhile.
C35_AtomicGenericRead ==
    [][(get.pc = "data" /\ op' = "fru_get" /\ rv' = "OK")
        => \E s \in get.seen
                    \cup {recs[FrulStrArea(get.index)]
                            .strings[FrulStrField(get.index) + 1]} :
              /\ s.has_str
              /\ [type |-> get'.type, len |-> get'.len, data |-> get'.data]
                    = ReadOf(s)]_vars

\* C36 (the encoder's self-check never fires): whatever public calls were
\* made on a decoded FRU, and whether they succeeded or failed, a write
\* never returns the internal-consistency error EBADF.
C36_SelfCheckNeverFires == ~(op = "write" /\ rv = "EBADF")

\* C37 (deleting an area is reported to the write planner): after a
\* successful delete_area of a present area, the next write stores 0 in
\* that area's header offset byte and emits the header range (0, 8).
C37_DeleteReported ==
    [][(/\ op' = "delete_area" /\ rv' = "OK"
        /\ call'.num \in Areas
        /\ recs[call'.num].present)
        => \A ub \in {"trap", "spill"} :
              LET Then(es) ==
                    es.rv = "OK"
                      => /\ es.buf[call'.num + 2] = 0
                         /\ \E k \in 1..Len(es.ups) : es.ups[k] = <<0, 8>>
              IN  Then(fru_write(data, recs', header_changed', ub))]_vars

\* C38 (decoded area length is not truncated): an image whose Chassis,
\* Board or Product area has length byte b and fits in the space behind it
\* decodes, and the decoder sets the area's length to exactly 8 * b.
C38_LengthNotTruncated ==
    [][(op' = "decode" /\ rv' # "ENOMEM")
        => /\ rv' = "OK"
           /\ \A a \in {CHASSIS_INFO_AREA, BOARD_INFO_AREA, PRODUCT_INFO_AREA} :
                 data[a + 2] # 0
                   => /\ recs'[a].present
                      /\ recs'[a].length = 8 * data[8 + 2]]_vars

(* ------------------------------------------------------------ C39 *)
\* C39: a get_field on a custom-string array of the root node that asks
\* for the element count gets the number of custom strings the area holds
\* (0 included) when the area is present, and gets an error, not an array
\* node, when the area is absent.
C39_CustomArrayLength ==
    (/\ op = "get_field"
     /\ call.node.kind = "root"
     /\ CustomArea(call.num) # -1
     /\ call.given)
    => IF recs[CustomArea(call.num)].present
       THEN rv = "OK" => out.int = CustomCount(recs, CustomArea(call.num))
       ELSE rv # "OK" /\ out.node = NoNode

(* ------------------------------------------------------------ C40 *)
\* C40: a string getter that finds its string stores only at positions
\* 0..n-1 of the caller's buffer, n being the capacity passed in, returns
\* normally and reports a length between 0 and n; with capacity 0 nothing
\* is stored and the length is not negative.
C40_ReadsStayInBuffer ==
    [][(/\ op' = "get_string"
        /\ is_normal_fru
        /\ recs[call'.area].present
        /\ fru_variable_string_to_out(recs[call'.area], call'.num,
                                      call'.cap).rv = "OK")
       => LET r == fru_variable_string_to_out(recs[call'.area], call'.num,
                                              call'.cap)
          IN  /\ r.first >= 0
              /\ r.last <= call'.cap - 1
              /\ rv' = "OK"
              /\ out'.int >= 0 /\ out'.int <= call'.cap]_vars

====
